---- MODULE Spec2Model ----
(***************************************************************************)
(* State-machine model of simpleai's context-window management:            *)
(*   - the chat session (chat.go): Send, Stream and its forwarding         *)
(*     goroutine, History, Summary, Clear, trimHistory, compactHistory,    *)
(*     under the session's sync.RWMutex;                                   *)
(*   - the bounded history buffer (memory/simple.go): Add, GetMessages,    *)
(*     Clear, trimToLimits, summarizeOldMessages.                          *)
(*   - the similarity index (rag.MemoryStore), the retrieval engine        *)
(*     (rag.RAG) and the retrieval-augmented buffer (memory.RAGMemory).    *)
(* A Go string is the sequence of its bytes, an ASCII byte written as a    *)
(* one-character string; a Go slice is modelled by its value (the          *)
(* sequence of its elements).                                              *)
(***************************************************************************)
EXTENDS Integers, Sequences, FiniteSets, TLC

\* ------------------------------------------------------------- bounds
\* API calls started on the session in one behaviour: by two concurrent
\* callers, and by a single caller.
MaxOps == 2
MaxSeqOps == 3
\* Add calls on the bounded buffer in one behaviour.
MaxAdds == 4
\* Add and AddBatch calls on the similarity index in one behaviour.
MaxStoreAdds == 3
\* Add calls on the retrieval-augmented buffer in one behaviour.
MaxRagAdds == 2
\* Stream calls on the session whose history is followed slice by slice.
MaxCalls == 4
\* The largest MaxAttempts of a Retry configuration, and the most fallback
\* providers of a Fallback configuration.
MaxRetryAttempts == 3
MaxProviders == 2

\* ------------------------------------------------------ strings, turns
Nil == "nil"
EmptyStr == <<>>

RoleSystem == "system"
RoleUser == "user"
RoleAssistant == "assistant"

Message(role, content) == [Role |-> role, Content |-> content]

\* len(text) / 4 (the README's counter and memory.DefaultTokenCounter).
CountTokens(text) == Len(text) \div 4

LastN(s, n) == SubSeq(s, Len(s) - n + 1, Len(s))

\* ------------------------------------------------------ session: inputs
\* The goroutines calling the session's API, and the forwarding goroutine
\* each one's Stream call starts.
Callers == {"c1", "c2"}
Forwarder(c) == IF c = "c1" THEN "g1" ELSE "g2"
Forwarders == {Forwarder(c) : c \in Callers}
Threads == Callers \cup Forwarders

\* Message texts passed to Send/Stream, contents the handler answers with,
\* fragments a stream delivers, texts the summarizer returns, handler errors.
UserTexts == {<<"p", "i", "n", "g">>}
ResponseTexts == {<<"p", "o", "n", "g">>}
Fragments == {<<"t", "o", "k", "n">>}
SummaryTexts == {<<"S", "U", "M", "M">>}
HandlerErrors == {"provider error"}
SystemPrompts == {EmptyStr, <<"s", "y", "s", "!">>}

\* A stream event: incremental content, the done flag, an optional error.
ContentEvent(f) == [Content |-> f, Done |-> FALSE, Error |-> Nil]
DoneEvent == [Content |-> EmptyStr, Done |-> TRUE, Error |-> Nil]
ErrorEvent == [Content |-> EmptyStr, Done |-> TRUE, Error |-> "stream error"]
StreamEvents == {ContentEvent(f) : f \in Fragments} \cup {DoneEvent, ErrorEvent}

\* The event sequences a provider's stream may deliver before it closes its
\* channel: content then done (or a finish reason), an error or a cancelled
\* context at any point (Error set, Done true), a body that ends with no
\* done event, and gemini's done event followed by the scanner's error.
Tok == ContentEvent(<<"t", "o", "k", "n">>)
ProviderStreams ==
    {<<>>, <<Tok>>, <<DoneEvent>>, <<ErrorEvent>>, <<Tok, DoneEvent>>,
     <<Tok, ErrorEvent>>, <<Tok, Tok, DoneEvent>>, <<DoneEvent, ErrorEvent>>}
\* Those explored with two concurrent callers.
ShortStreams == {<<>>, <<DoneEvent>>, <<ErrorEvent>>, <<Tok, DoneEvent>>}

IsPrefix(s, t) == Len(s) <= Len(t) /\ SubSeq(t, 1, Len(s)) = s

VARIABLES
    \* Chat fields
    system, history, historyLimit, maxTokens, tokenCounter, autocompact,
    conversationSummary,
    \* Chat.mu: the goroutine holding the write lock (or Nil), the readers
    mu,
    \* each goroutine's position and locals; delivered is the events a
    \* forwarder has read from the provider's channel so far
    pc, message, req, resp, err, ret, recentMessages, summaryContent,
    summaryErr, fullContent, delivered,
    \* the process: true once a goroutine panicked
    panicked,
    \* history records: the operations started, history and summary at the
    \* start of a call, history and summary on entry to compactHistory,
    \* whether the call's trimHistory removed a turn, whether a Send or
    \* Stream has appended its assistant turn
    ops, hist0, compactFrom, compactSum, trimmed, completed,
    \* memory.Simple fields (summarizer: whether one is configured)
    messages, tokenCounts, totalTokens, config, summarizer, summary,
    \* the Add calls made, and the last GetMessages call: its argument and
    \* its result (valid until the buffer changes)
    adds, got,
    \* the last call on the buffer: the method, the buffer before it, the
    \* turn added, what became of summarization, the error returned
    memOp,
    \* Simple.mu (its writer and its readers), where each goroutine calling
    \* Add or Clear is in its method, and what a goroutine inside a read
    \* accessor has read
    bufMu, bufPc, observed,
    \* MemoryStore.documents
    documents,
    \* the Add/AddBatch calls made on the index, and the last call on it:
    \* the method, the documents before it, its arguments, its result,
    \* whether it panicked
    storeAdds, storeOp,
    \* RAGMemory.messageID, RAG.config
    messageID, ragConfig,
    \* the last call on the retrieval-augmented buffer, and whether every
    \* Add so far was indexed and nothing was deleted or cleared
    ragOp, pristine,
    \* where each goroutine calling RAGMemory.Add is in it, with the value
    \* of messageID it loaded, its id and its turn; and the numbers the Adds
    \* have formatted into identifiers, in the order they did
    adder, minted,
    \* the slice header of Chat.history (its backing array, where it starts
    \* in it, the array's capacity), the arrays allocated, each Stream
    \* call's position with the recentMessages slice of its compaction, and
    \* the turns in the order they were appended
    hdr, allocs, call, views, appendOrder,
    \* the request's context (done or not), and the locals of a handler
    \* wrapped by Retry and of one wrapped by Fallback, each with the calls
    \* it has made and what it returned
    ctxDone, retry, fallback

chatVars == <<system, history, historyLimit, maxTokens, tokenCounter,
              autocompact, conversationSummary, mu, pc, message, req, resp,
              err, ret, recentMessages, summaryContent, summaryErr,
              fullContent, delivered, panicked, ops, hist0, compactFrom,
              compactSum, trimmed, completed>>

memVars == <<messages, tokenCounts, totalTokens, config, summarizer, summary,
             adds, got, memOp, bufMu, bufPc, observed>>

ragVars == <<documents, storeAdds, storeOp, messageID, ragConfig, ragOp, pristine,
             adder, minted>>

sliceVars == <<hdr, allocs, call, views, appendOrder>>

mwVars == <<ctxDone, retry, fallback>>

vars == <<chatVars, memVars, ragVars, sliceVars, mwVars>>

\* ------------------------------------------------------ session: mutex
MuFree == [w |-> Nil, r |-> {}]
\* sync.RWMutex: Lock waits for the writer and every reader to leave,
\* RLock waits for the writer.
CanLock == mu.w = Nil /\ mu.r = {}
CanRLock == mu.w = Nil
Locked(t) == [mu EXCEPT !.w = t]
Unlocked == [mu EXCEPT !.w = Nil]

\* ------------------------------------------------ session: pure helpers
SummaryOpen == <<"[", "P", "r", "e", "v", "i", "o", "u", "s", " ", "c", "o",
                 "n", "v", "e", "r", "s", "a", "t", "i", "o", "n", " ", "s",
                 "u", "m", "m", "a", "r", "y", ":", " ">>
SummaryClose == <<"]">>
BlankLine == <<"\n", "\n">>

\* Fault: the summary is left out when a system prompt is set.
buildMessages_DropsSummary(sys, sum, h) ==
    LET lead == IF sys # EmptyStr
                THEN <<Message(RoleSystem, sys)>>
                ELSE IF sum # EmptyStr
                THEN <<Message(RoleSystem, SummaryOpen \o sum \o SummaryClose)>>
                ELSE <<>>
    IN  lead \o h

\* Chat.buildMessages
buildMessages(sys, sum, h) ==
    LET lead == IF sys # EmptyStr
                THEN <<Message(RoleSystem,
                        IF sum # EmptyStr
                        THEN sys \o BlankLine \o SummaryOpen \o sum \o SummaryClose
                        ELSE sys)>>
                ELSE IF sum # EmptyStr
                THEN <<Message(RoleSystem, SummaryOpen \o sum \o SummaryClose)>>
                ELSE <<>>
    IN  lead \o h

\* Send / Stream: the user turn appended for message m
UserTurn(m) == Message(RoleUser, m)

\* Fault: the response is appended as a user turn.
AssistantTurn_AsUser(r) == Message(RoleUser, r)

\* Send / Stream: the assistant turn appended for response content r
AssistantTurn(r) == Message(RoleAssistant, r)

\* Fault: the rollback drops the oldest turn, c.history[1:].
DropLast_Oldest(h) == Tail(h)

\* c.history[:len(c.history)-1]
DropLast(h) == SubSeq(h, 1, Len(h) - 1)

\* Chat.countHistoryTokens
RECURSIVE SumTokens(_)
SumTokens(h) ==
    IF h = <<>> THEN 0 ELSE CountTokens(Head(h).Content) + SumTokens(Tail(h))

countHistoryTokens(h) == IF tokenCounter = Nil THEN 0 ELSE SumTokens(h)

\* trimHistory, "Trim by message count"
TrimByCount(h) ==
    IF historyLimit > 0 /\ Len(h) > historyLimit
    THEN SubSeq(h, Len(h) - historyLimit + 1, Len(h))
    ELSE h

\* trimHistory, "Trim by token count"
RECURSIVE TrimTokenLoop(_)
TrimTokenLoop(h) ==
    IF countHistoryTokens(h) > maxTokens /\ Len(h) > 1
    THEN TrimTokenLoop(Tail(h))
    ELSE h

TrimByTokens(h) ==
    IF maxTokens > 0 /\ tokenCounter # Nil THEN TrimTokenLoop(h) ELSE h

\* trimHistory's test for compaction, and compactHistory's own guards
ShouldCompact(h) == autocompact.On /\ Len(h) >= autocompact.Threshold
CompactSplits(h) == ShouldCompact(h) /\ autocompact.KeepRecent < Len(h)

\* Fault: the oldest turns are kept instead of the most recent.
RecentOf_Oldest(h) == SubSeq(h, 1, autocompact.KeepRecent)

\* compactHistory: recentMessages := c.history[len(c.history)-keepRecent:]
RecentOf(h) == LastN(h, autocompact.KeepRecent)

\* compactHistory: the summary after a successful summarization
AppendSummary(old, new) == IF old # EmptyStr THEN old \o BlankLine \o new ELSE new

\* ------------------------------------------------- session: construction
\* NewChat's default historyLimit.
DefaultHistoryLimit == 100
HistoryLimits == {0, 2}
Thresholds == {2, 4}
KeepRecents == {0, 1, 3}
\* c.autocompact: On is "c.autocompact != nil"
NoAutocompact == [On |-> FALSE, Threshold |-> 0, KeepRecent |-> 0]
Autocompact(th, k) == [On |-> TRUE, Threshold |-> th, KeepRecent |-> k]
AutocompactConfigs ==
    {NoAutocompact} \cup {Autocompact(th, k) : th \in Thresholds, k \in KeepRecents}
\* WithMaxTokens / WithTokenCounter: <<maxTokens, tokenCounter>>
TokenLimits == {<<0, Nil>>, <<2, "len/4">>}
\* WithMessages
SeedHistories ==
    {<<>>,
     <<Message(RoleUser, <<"o", "l", "d", "?">>), Message(RoleAssistant, <<"o", "l", "d", "!">>),
       Message(RoleUser, <<"o", "l", "d", "?">>)>>}

NoReq == <<>>
NoRet == [val |-> <<>>, err |-> Nil]

\* An error value: nil, a *ProviderError with its status code, any other
\* error of a handler, or the context's error; from names the provider.
NoErr == [kind |-> "nil", status |-> 0, from |-> "none"]
ProviderError(p, code) == [kind |-> "provider", status |-> code, from |-> p]
PlainError(p) == [kind |-> "plain", status |-> 0, from |-> p]
CtxErr == [kind |-> "ctx", status |-> 0, from |-> "none"]

\* What a handler returns: (resp, nil) or (nil, err); the response names
\* the provider that answered.
Returned(r, e) == [resp |-> r, err |-> e]
NoReturn == Returned(Nil, NoErr)

\* A handler wrapped by Retry, and one wrapped by Fallback, not called.
NoRetry ==
    [pc |-> "idle", cfg |-> [MaxAttempts |-> 1, InitialDelay |-> 0, MaxDelay |-> 0,
                             Multiplier |-> 1, Jitter |-> FALSE],
     attempt |-> 0, lastErr |-> NoErr, delay |-> 0, waitTime |-> 0,
     outcomes |-> <<>>, ready |-> {}, ret |-> NoReturn]
NoFallback ==
    [pc |-> "idle", n |-> 0, i |-> 0, err |-> NoErr, tried |-> <<>>,
     checked |-> FALSE, ret |-> NoReturn]

MwIdle == ctxDone = FALSE /\ retry = NoRetry /\ fallback = NoFallback

\* The Stream calls followed slice by slice, and the recentMessages slice of
\* a call that is not inside compactHistory.
Calls == 1..MaxCalls
NoView == [id |-> 0, lo |-> 0, cap |-> 0, cells |-> <<>>]

\* NewChat with its options applied; nothing in flight.
ChatInit(limits, compacts, tokens, seeds, prompts) ==
    /\ system \in prompts
    /\ history \in seeds
    /\ historyLimit \in limits
    /\ \E tl \in tokens : maxTokens = tl[1] /\ tokenCounter = tl[2]
    /\ autocompact \in compacts
    /\ conversationSummary = EmptyStr
    /\ mu = MuFree
    /\ pc = [t \in Threads |-> IF t \in Callers THEN "idle" ELSE "off"]
    /\ message = [t \in Threads |-> EmptyStr]
    /\ req = [t \in Threads |-> NoReq]
    /\ resp = [t \in Threads |-> EmptyStr]
    /\ err = [t \in Threads |-> Nil]
    /\ ret = [t \in Threads |-> NoRet]
    /\ recentMessages = [t \in Threads |-> <<>>]
    /\ summaryContent = [t \in Threads |-> EmptyStr]
    /\ summaryErr = [t \in Threads |-> Nil]
    /\ fullContent = [t \in Threads |-> EmptyStr]
    /\ delivered = [t \in Threads |-> <<>>]
    /\ panicked = FALSE
    /\ ops = 0
    /\ hist0 = [t \in Threads |-> <<>>]
    /\ compactFrom = [t \in Threads |-> <<>>]
    /\ compactSum = [t \in Threads |-> EmptyStr]
    /\ trimmed = [t \in Threads |-> FALSE]
    /\ completed = FALSE
    /\ hdr = [id |-> 0, lo |-> 0, cap |-> Len(history)]
    /\ allocs = 0
    /\ call = [k \in Calls |-> "new"]
    /\ views = [k \in Calls |-> NoView]
    /\ appendOrder = history
    /\ MwIdle

\* ------------------------------------------------------ session: steps
Running == ~panicked
CanStart(c, maxOps) == Running /\ pc[c] = "idle" /\ ops < maxOps

\* Where a goroutine continues when trimHistory returns to its caller.
AfterTrim(t) == IF t \in Callers THEN "SendUnlock" ELSE "GUnlock"

\* Chat.trimHistory on history h, called by t with the lock held. Either
\* compactHistory splits h and releases the lock for the summarizer call, or
\* (compaction not due, or nothing to compact) the limits are applied.
trimHistory(t, h) ==
    /\ completed' = TRUE
    /\ IF CompactSplits(h)
       THEN /\ history' = h
            /\ recentMessages' = [recentMessages EXCEPT ![t] = RecentOf(h)]
            /\ compactFrom' = [compactFrom EXCEPT ![t] = h]
            /\ compactSum' = [compactSum EXCEPT ![t] = conversationSummary]
            /\ mu' = Unlocked
            /\ pc' = [pc EXCEPT ![t] = "CompactCall"]
            /\ trimmed' = [trimmed EXCEPT ![t] = FALSE]
       ELSE /\ history' = IF ShouldCompact(h) THEN h ELSE TrimByTokens(TrimByCount(h))
            /\ trimmed' = [trimmed EXCEPT ![t] = (history' # h)]
            /\ pc' = [pc EXCEPT ![t] = AfterTrim(t)]
            /\ mu' = Locked(t)
            /\ UNCHANGED <<recentMessages, compactFrom, compactSum>>

\* Send, lines 64-77: Lock, append the user turn, build the request.
SendLock(c, maxOps) ==
    /\ CanStart(c, maxOps) /\ CanLock
    /\ \E m \in UserTexts :
        /\ message' = [message EXCEPT ![c] = m]
        /\ history' = Append(history, UserTurn(m))
    /\ mu' = Locked(c)
    /\ req' = [req EXCEPT ![c] = [Messages |-> buildMessages(system, conversationSummary, history'),
                                  SystemPrompt |-> system]]
    /\ hist0' = [hist0 EXCEPT ![c] = history]
    /\ pc' = [pc EXCEPT ![c] = "SendCall"]
    /\ ops' = ops + 1
    /\ UNCHANGED <<memVars, ragVars, sliceVars, mwVars, completed>>
    /\ UNCHANGED <<system, historyLimit, maxTokens, tokenCounter, autocompact,
                   conversationSummary, resp, err, ret, recentMessages,
                   summaryContent, summaryErr, fullContent, delivered, panicked,
                   compactFrom, compactSum, trimmed>>

\* Send, lines 80-85: the handler returns an error; roll back, return it.
SendFail(c) ==
    /\ Running /\ pc[c] = "SendCall"
    /\ \E e \in HandlerErrors :
        /\ err' = [err EXCEPT ![c] = e]
        /\ ret' = [ret EXCEPT ![c] = [val |-> <<>>, err |-> e]]
    /\ history' = DropLast(history)
    /\ pc' = [pc EXCEPT ![c] = "SendUnlock"]
    /\ UNCHANGED <<memVars, ragVars, sliceVars, mwVars, completed>>
    /\ UNCHANGED <<system, historyLimit, maxTokens, tokenCounter, autocompact,
                   conversationSummary, mu, message, req, resp, recentMessages,
                   summaryContent, summaryErr, fullContent, delivered, panicked,
                   ops, hist0, compactFrom, compactSum, trimmed>>

\* Send, lines 80, 87-96: the handler returns a response; append the
\* assistant turn, trimHistory, return the response.
SendOk(c) ==
    /\ Running /\ pc[c] = "SendCall"
    /\ \E r \in ResponseTexts :
        /\ resp' = [resp EXCEPT ![c] = r]
        /\ ret' = [ret EXCEPT ![c] = [val |-> r, err |-> Nil]]
        /\ trimHistory(c, Append(history, AssistantTurn(r)))
    /\ UNCHANGED <<memVars, ragVars, sliceVars, mwVars>>
    /\ UNCHANGED <<system, historyLimit, maxTokens, tokenCounter, autocompact,
                   conversationSummary, message, req, err, summaryContent,
                   summaryErr, fullContent, delivered, panicked, ops, hist0>>

\* compactHistory, lines 268-295: the summarizer (or the default model call)
\* returns, with the lock released.
CompactCall(t) ==
    /\ Running /\ pc[t] = "CompactCall"
    /\ \/ \E s \in SummaryTexts :
            /\ summaryContent' = [summaryContent EXCEPT ![t] = s]
            /\ summaryErr' = [summaryErr EXCEPT ![t] = Nil]
       \/ /\ summaryContent' = [summaryContent EXCEPT ![t] = EmptyStr]
          /\ summaryErr' = [summaryErr EXCEPT ![t] = "summarizer error"]
    /\ pc' = [pc EXCEPT ![t] = "CompactRelock"]
    /\ UNCHANGED <<memVars, ragVars, sliceVars, mwVars, completed>>
    /\ UNCHANGED <<system, history, historyLimit, maxTokens, tokenCounter,
                   autocompact, conversationSummary, mu, message, req, resp, err,
                   ret, recentMessages, fullContent, delivered, panicked, ops,
                   hist0, compactFrom, compactSum, trimmed>>

\* Fault: the summarizer's error is not checked before the summary is
\* extended.
CompactedSummary_Unchecked(old, content, e) == AppendSummary(old, content)

\* compactHistory, lines 300-311: the summary after the summarizer returned.
CompactedSummary(old, content, e) ==
    IF e # Nil THEN old ELSE AppendSummary(old, content)

\* compactHistory, lines 298-314: Lock again, keep only the recent turns.
CompactRelock(t) ==
    /\ Running /\ pc[t] = "CompactRelock" /\ CanLock
    /\ mu' = Locked(t)
    /\ conversationSummary' =
           CompactedSummary(conversationSummary, summaryContent[t], summaryErr[t])
    /\ history' = recentMessages[t]
    /\ trimmed' = [trimmed EXCEPT ![t] = TRUE]
    /\ pc' = [pc EXCEPT ![t] = AfterTrim(t)]
    /\ UNCHANGED <<memVars, ragVars, sliceVars, mwVars, completed>>
    /\ UNCHANGED <<system, historyLimit, maxTokens, tokenCounter, autocompact,
                   message, req, resp, err, ret, recentMessages, summaryContent,
                   summaryErr, fullContent, delivered, panicked, ops, hist0,
                   compactFrom, compactSum>>

\* Send's deferred Unlock; Send returns.
SendUnlock(c) ==
    /\ Running /\ pc[c] = "SendUnlock"
    /\ mu' = Unlocked
    /\ pc' = [pc EXCEPT ![c] = "idle"]
    /\ message' = [message EXCEPT ![c] = EmptyStr]
    /\ req' = [req EXCEPT ![c] = NoReq]
    /\ resp' = [resp EXCEPT ![c] = EmptyStr]
    /\ err' = [err EXCEPT ![c] = Nil]
    /\ ret' = [ret EXCEPT ![c] = NoRet]
    /\ recentMessages' = [recentMessages EXCEPT ![c] = <<>>]
    /\ summaryContent' = [summaryContent EXCEPT ![c] = EmptyStr]
    /\ summaryErr' = [summaryErr EXCEPT ![c] = Nil]
    /\ hist0' = [hist0 EXCEPT ![c] = <<>>]
    /\ compactFrom' = [compactFrom EXCEPT ![c] = <<>>]
    /\ compactSum' = [compactSum EXCEPT ![c] = EmptyStr]
    /\ trimmed' = [trimmed EXCEPT ![c] = FALSE]
    /\ UNCHANGED <<memVars, ragVars, sliceVars, mwVars, completed>>
    /\ UNCHANGED <<system, history, historyLimit, maxTokens, tokenCounter,
                   autocompact, conversationSummary, fullContent, delivered,
                   panicked, ops>>

\* Stream, lines 101-116: Lock, append the user turn, build the request,
\* Unlock. (A caller has one forwarding goroutine at a time.)
StreamLock(c, maxOps) ==
    /\ CanStart(c, maxOps) /\ CanLock /\ pc[Forwarder(c)] = "off"
    /\ \E m \in UserTexts :
        /\ message' = [message EXCEPT ![c] = m]
        /\ history' = Append(history, UserTurn(m))
    /\ req' = [req EXCEPT ![c] = [Messages |-> buildMessages(system, conversationSummary, history'),
                                  SystemPrompt |-> system]]
    /\ hist0' = [hist0 EXCEPT ![c] = history]
    /\ pc' = [pc EXCEPT ![c] = "StreamCall"]
    /\ ops' = ops + 1
    /\ UNCHANGED <<memVars, ragVars, sliceVars, mwVars, completed>>
    /\ UNCHANGED <<system, historyLimit, maxTokens, tokenCounter, autocompact,
                   conversationSummary, mu, resp, err, ret, recentMessages,
                   summaryContent, summaryErr, fullContent, delivered, panicked,
                   compactFrom, compactSum, trimmed>>

\* Stream, lines 119-125: the streaming handler returned an error (a failed
\* or cancelled request); Lock, drop the last turn, Unlock, return the error.
\* c.history[:len(c.history)-1] panics on an empty history, the lock held.
StreamFail(c) ==
    /\ Running /\ pc[c] = "StreamCall" /\ CanLock
    /\ IF Len(history) = 0
       THEN /\ panicked' = TRUE
            /\ mu' = Locked(c)
            /\ UNCHANGED <<history, pc, message, req, hist0>>
       ELSE /\ history' = DropLast(history)
            /\ pc' = [pc EXCEPT ![c] = "idle"]
            /\ message' = [message EXCEPT ![c] = EmptyStr]
            /\ req' = [req EXCEPT ![c] = NoReq]
            /\ hist0' = [hist0 EXCEPT ![c] = <<>>]
            /\ UNCHANGED <<panicked, mu>>
    /\ UNCHANGED <<memVars, ragVars, sliceVars, mwVars, completed>>
    /\ UNCHANGED <<system, historyLimit, maxTokens, tokenCounter, autocompact,
                   conversationSummary, resp, err, ret, recentMessages,
                   summaryContent, summaryErr, fullContent, delivered, ops,
                   compactFrom, compactSum, trimmed>>

\* Stream, lines 119, 128-150: the handler returned a channel; start the
\* forwarding goroutine and return the output channel.
StreamStart(c) ==
    /\ Running /\ pc[c] = "StreamCall"
    /\ pc' = [pc EXCEPT ![c] = "idle", ![Forwarder(c)] = "GLoop"]
    /\ fullContent' = [fullContent EXCEPT ![Forwarder(c)] = EmptyStr]
    /\ delivered' = [delivered EXCEPT ![Forwarder(c)] = <<>>]
    /\ hist0' = [hist0 EXCEPT ![c] = <<>>, ![Forwarder(c)] = hist0[c]]
    /\ message' = [message EXCEPT ![c] = EmptyStr, ![Forwarder(c)] = message[c]]
    /\ req' = [req EXCEPT ![c] = NoReq]
    /\ UNCHANGED <<memVars, ragVars, sliceVars, mwVars, completed>>
    /\ UNCHANGED <<system, history, historyLimit, maxTokens, tokenCounter,
                   autocompact, conversationSummary, mu, resp, err, ret,
                   recentMessages, summaryContent, summaryErr, panicked, ops,
                   compactFrom, compactSum, trimmed>>

\* The goroutine appending on every event, done or not.
AfterEvent_Always(ev) == "GAppend"

\* The goroutine, line 137: only a done event leads to the locked append.
AfterEvent(ev) == IF ev.Done THEN "GAppend" ELSE "GLoop"

\* The goroutine, lines 133-137: the next event arrives, is accumulated and
\* forwarded to the consumer.
GRecv(g, streams) ==
    /\ Running /\ pc[g] = "GLoop"
    /\ \E ev \in StreamEvents :
        /\ \E st \in streams : IsPrefix(Append(delivered[g], ev), st)
        /\ fullContent' = [fullContent EXCEPT ![g] = fullContent[g] \o ev.Content]
        /\ delivered' = [delivered EXCEPT ![g] = Append(delivered[g], ev)]
        /\ pc' = [pc EXCEPT ![g] = AfterEvent(ev)]
    /\ UNCHANGED <<memVars, ragVars, sliceVars, mwVars, completed>>
    /\ UNCHANGED <<system, history, historyLimit, maxTokens, tokenCounter,
                   autocompact, conversationSummary, mu, message, req, resp, err,
                   ret, recentMessages, summaryContent, summaryErr, panicked,
                   ops, hist0, compactFrom, compactSum, trimmed>>

\* The goroutine, lines 133, 148: the provider closed its channel; the loop
\* ends and the output channel is closed.
GClose(g, streams) ==
    /\ Running /\ pc[g] = "GLoop" /\ delivered[g] \in streams
    /\ pc' = [pc EXCEPT ![g] = "off"]
    /\ fullContent' = [fullContent EXCEPT ![g] = EmptyStr]
    /\ delivered' = [delivered EXCEPT ![g] = <<>>]
    /\ message' = [message EXCEPT ![g] = EmptyStr]
    /\ hist0' = [hist0 EXCEPT ![g] = <<>>]
    /\ UNCHANGED <<memVars, ragVars, sliceVars, mwVars, completed>>
    /\ UNCHANGED <<system, history, historyLimit, maxTokens, tokenCounter,
                   autocompact, conversationSummary, mu, req, resp, err,
                   ret, recentMessages, summaryContent, summaryErr,
                   panicked, ops, compactFrom, compactSum, trimmed>>

\* The goroutine, lines 137-144: a done event was read; Lock, append the
\* assistant turn with the accumulated content, trimHistory.
GAppend(g) ==
    /\ Running /\ pc[g] = "GAppend" /\ CanLock
    /\ trimHistory(g, Append(history, AssistantTurn(fullContent[g])))
    /\ UNCHANGED <<memVars, ragVars, sliceVars, mwVars>>
    /\ UNCHANGED <<system, historyLimit, maxTokens, tokenCounter, autocompact,
                   conversationSummary, message, req, resp, err, ret,
                   summaryContent, summaryErr, fullContent, delivered, panicked,
                   ops, hist0>>

\* The goroutine, line 145: Unlock, back to the loop.
GUnlock(g) ==
    /\ Running /\ pc[g] = "GUnlock"
    /\ mu' = Unlocked
    /\ pc' = [pc EXCEPT ![g] = "GLoop"]
    /\ recentMessages' = [recentMessages EXCEPT ![g] = <<>>]
    /\ summaryContent' = [summaryContent EXCEPT ![g] = EmptyStr]
    /\ summaryErr' = [summaryErr EXCEPT ![g] = Nil]
    /\ compactFrom' = [compactFrom EXCEPT ![g] = <<>>]
    /\ compactSum' = [compactSum EXCEPT ![g] = EmptyStr]
    /\ trimmed' = [trimmed EXCEPT ![g] = FALSE]
    /\ UNCHANGED <<memVars, ragVars, sliceVars, mwVars, completed>>
    /\ UNCHANGED <<system, history, historyLimit, maxTokens, tokenCounter,
                   autocompact, conversationSummary, message, req, resp, err, ret,
                   fullContent, delivered, panicked, ops, hist0>>

\* History, lines 155-160: RLock, copy the history.
HistoryRLock(c, maxOps) ==
    /\ CanStart(c, maxOps) /\ CanRLock
    /\ mu' = [mu EXCEPT !.r = @ \cup {c}]
    /\ ret' = [ret EXCEPT ![c] = [val |-> history, err |-> Nil]]
    /\ pc' = [pc EXCEPT ![c] = "RUnlock"]
    /\ ops' = ops + 1
    /\ UNCHANGED <<memVars, ragVars, sliceVars, mwVars, completed>>
    /\ UNCHANGED <<system, history, historyLimit, maxTokens, tokenCounter,
                   autocompact, conversationSummary, message, req, resp, err,
                   recentMessages, summaryContent, summaryErr, fullContent,
                   delivered, panicked, hist0, compactFrom, compactSum, trimmed>>

\* Summary, lines 319-321: RLock, read the summary.
SummaryRLock(c, maxOps) ==
    /\ CanStart(c, maxOps) /\ CanRLock
    /\ mu' = [mu EXCEPT !.r = @ \cup {c}]
    /\ ret' = [ret EXCEPT ![c] = [val |-> conversationSummary, err |-> Nil]]
    /\ pc' = [pc EXCEPT ![c] = "RUnlock"]
    /\ ops' = ops + 1
    /\ UNCHANGED <<memVars, ragVars, sliceVars, mwVars, completed>>
    /\ UNCHANGED <<system, history, historyLimit, maxTokens, tokenCounter,
                   autocompact, conversationSummary, message, req, resp, err,
                   recentMessages, summaryContent, summaryErr, fullContent,
                   delivered, panicked, hist0, compactFrom, compactSum, trimmed>>

\* History / Summary: the deferred RUnlock; the accessor returns.
RUnlock(c) ==
    /\ Running /\ pc[c] = "RUnlock"
    /\ mu' = [mu EXCEPT !.r = @ \ {c}]
    /\ ret' = [ret EXCEPT ![c] = NoRet]
    /\ pc' = [pc EXCEPT ![c] = "idle"]
    /\ UNCHANGED <<memVars, ragVars, sliceVars, mwVars, completed>>
    /\ UNCHANGED <<system, history, historyLimit, maxTokens, tokenCounter,
                   autocompact, conversationSummary, message, req, resp, err,
                   recentMessages, summaryContent, summaryErr, fullContent,
                   delivered, panicked, ops, hist0, compactFrom, compactSum,
                   trimmed>>

\* Clear, lines 165-167: Lock, c.history = []Message{}.
ClearLock(c, maxOps) ==
    /\ CanStart(c, maxOps) /\ CanLock
    /\ mu' = Locked(c)
    /\ history' = <<>>
    /\ pc' = [pc EXCEPT ![c] = "ClearUnlock"]
    /\ ops' = ops + 1
    /\ UNCHANGED <<memVars, ragVars, sliceVars, mwVars, completed>>
    /\ UNCHANGED <<system, historyLimit, maxTokens, tokenCounter, autocompact,
                   conversationSummary, message, req, resp, err, ret,
                   recentMessages, summaryContent, summaryErr, fullContent,
                   delivered, panicked, hist0, compactFrom, compactSum, trimmed>>

\* Clear's deferred Unlock; Clear returns.
ClearUnlock(c) ==
    /\ Running /\ pc[c] = "ClearUnlock"
    /\ mu' = Unlocked
    /\ pc' = [pc EXCEPT ![c] = "idle"]
    /\ UNCHANGED <<memVars, ragVars, sliceVars, mwVars, completed>>
    /\ UNCHANGED <<system, history, historyLimit, maxTokens, tokenCounter,
                   autocompact, conversationSummary, message, req, resp, err, ret,
                   recentMessages, summaryContent, summaryErr, fullContent,
                   delivered, panicked, ops, hist0, compactFrom, compactSum,
                   trimmed>>

Step(c, maxOps) ==
    \/ SendLock(c, maxOps) \/ SendFail(c) \/ SendOk(c) \/ SendUnlock(c)
    \/ StreamLock(c, maxOps) \/ StreamFail(c) \/ StreamStart(c)
    \/ HistoryRLock(c, maxOps) \/ SummaryRLock(c, maxOps) \/ RUnlock(c)
    \/ ClearLock(c, maxOps) \/ ClearUnlock(c)
    \/ CompactCall(c) \/ CompactRelock(c)

Forward(g, streams) ==
    \/ GRecv(g, streams) \/ GClose(g, streams) \/ GAppend(g) \/ GUnlock(g)
    \/ CompactCall(g) \/ CompactRelock(g)


\* ------------------------------------------------ bounded history buffer
\* Turns added to the buffer: costs 1, 2 and 0 by len/4.
MemMessages ==
    {Message(RoleUser, <<"w", "h", "a", "t">>),
     Message(RoleAssistant, <<"a", "n", "s", "w", "e", "r", "e", "d">>),
     Message(RoleUser, <<"o", "k">>)}
\* Texts the buffer's summarizer returns: costs 1 and 0.
MemSummaryTexts == {<<"S", "U", "M", "M">>, <<"s", "u", "m">>}
\* MemoryConfig values (TokenCounter is DefaultTokenCounter)
MemConfigs ==
    {[MaxTokens |-> mt, MaxMessages |-> mm, SummarizeAfter |-> sa] :
        mt \in {3, 4000}, mm \in {0, 3}, sa \in {0, 2}}
\* maxTokens arguments of GetMessages
Budgets == {0, 1, 2, 3, 4}

NoGot == [valid |-> FALSE, maxTokens |-> 0, result |-> <<>>]

\* "[Previous conversation summary]\n"
MemSummaryPrefix == <<"[", "P", "r", "e", "v", "i", "o", "u", "s", " ", "c",
                      "o", "n", "v", "e", "r", "s", "a", "t", "i", "o", "n",
                      " ", "s", "u", "m", "m", "a", "r", "y", "]", "\n">>

\* A buffer value: the fields Add and its helpers rewrite.
Buf(ms, tcs, total, sum) ==
    [messages |-> ms, tokenCounts |-> tcs, totalTokens |-> total, summary |-> sum]

NoMemOp ==
    [op |-> "None", prev |-> Buf(<<>>, <<>>, 0, EmptyStr),
     msg |-> Message(RoleUser, EmptyStr), summarized |-> "none", err |-> Nil,
     given |-> <<>>, text |-> EmptyStr]

\* Goroutines calling Add and Clear, and goroutines calling the read
\* accessors, on one buffer.
BufWriters == {"w1", "w2"}
BufReaders == {"r1"}
\* Simple.mu, a sync.RWMutex nobody holds.
BufMuFree == [w |-> Nil, r |-> {}]
\* What the last read accessor of a goroutine saw, if it is still in it.
NoObserved == [valid |-> FALSE, buf |-> Buf(<<>>, <<>>, 0, EmptyStr), busy |-> {}]

\* NewSimple / NewSimpleWithSummarizer
MemInit(configs, summarizers) ==
    /\ messages = <<>>
    /\ tokenCounts = <<>>
    /\ totalTokens = 0
    /\ config \in configs
    /\ summarizer \in summarizers
    /\ summary = EmptyStr
    /\ adds = 0
    /\ got = NoGot
    /\ memOp = NoMemOp
    /\ bufMu = BufMuFree
    /\ bufPc = [w \in BufWriters |-> "idle"]
    /\ observed = [r \in BufReaders |-> NoObserved]

RECURSIVE SumSeq(_)
SumSeq(s) == IF s = <<>> THEN 0 ELSE Head(s) + SumSeq(Tail(s))

DropFirst(s, n) == SubSeq(s, n + 1, Len(s))

\* trimToLimits, "Trim by message count"
TrimCount(b) ==
    IF config.MaxMessages > 0 /\ Len(b.messages) > config.MaxMessages
    THEN LET excess == Len(b.messages) - config.MaxMessages
         IN  Buf(DropFirst(b.messages, excess), DropFirst(b.tokenCounts, excess),
                 b.totalTokens - SumSeq(SubSeq(b.tokenCounts, 1, excess)), b.summary)
    ELSE b

\* Fault: the cost trim drops one turn at most.
TrimTokens_Once(b) ==
    IF b.totalTokens > config.MaxTokens /\ Len(b.messages) > 0
    THEN Buf(Tail(b.messages), Tail(b.tokenCounts),
             b.totalTokens - b.tokenCounts[1], b.summary)
    ELSE b

\* trimToLimits, "Trim by token count"
RECURSIVE TrimTokens(_)
TrimTokens(b) ==
    IF b.totalTokens > config.MaxTokens /\ Len(b.messages) > 0
    THEN TrimTokens(Buf(Tail(b.messages), Tail(b.tokenCounts),
                        b.totalTokens - b.tokenCounts[1], b.summary))
    ELSE b

\* Simple.trimToLimits
trimToLimits(b) == TrimTokens(TrimCount(b))

\* Add's test for summarization, and summarizeOldMessages' own guard
SummarizeDue(b) ==
    /\ summarizer /\ config.SummarizeAfter > 0
    /\ Len(b.messages) > config.SummarizeAfter
    /\ ~(Len(b.messages) <= config.SummarizeAfter \div 2)

\* Fault: the summarized half is dropped although the summarizer failed.
summarizeFailed_Dropped(b) ==
    LET splitPoint == Len(b.messages) \div 2
    IN  Buf(DropFirst(b.messages, splitPoint), DropFirst(b.tokenCounts, splitPoint),
            b.totalTokens - SumSeq(SubSeq(b.tokenCounts, 1, splitPoint)), b.summary)

\* summarizeOldMessages when the summarizer returned an error: it returns
\* before it has written anything
summarizeFailed(b) == b

\* summarizeOldMessages, lines 163-164: the turns handed to the summarizer
toSummarize(b) == SubSeq(b.messages, 1, Len(b.messages) \div 2)

\* Fault: the split is made after SummarizeAfter turns, not at the half.
summarizeOldMessages_SplitAfter(b, text) ==
    LET splitPoint == config.SummarizeAfter
    IN  Buf(DropFirst(b.messages, splitPoint), DropFirst(b.tokenCounts, splitPoint),
            b.totalTokens - SumSeq(SubSeq(b.tokenCounts, 1, splitPoint)),
            IF b.summary # EmptyStr THEN b.summary \o BlankLine \o text ELSE text)

\* Fault: the summarizer's text replaces the standing summary.
summarizeOldMessages_Replaces(b, text) ==
    LET splitPoint == Len(b.messages) \div 2
    IN  Buf(DropFirst(b.messages, splitPoint), DropFirst(b.tokenCounts, splitPoint),
            b.totalTokens - SumSeq(SubSeq(b.tokenCounts, 1, splitPoint)), text)

\* Fault: the summarized turns' costs stay in the total.
summarizeOldMessages_KeepsTotal(b, text) ==
    LET splitPoint == Len(b.messages) \div 2
    IN  Buf(DropFirst(b.messages, splitPoint), DropFirst(b.tokenCounts, splitPoint),
            b.totalTokens,
            IF b.summary # EmptyStr THEN b.summary \o BlankLine \o text ELSE text)

\* summarizeOldMessages when the summarizer returned text
summarizeOldMessages(b, text) ==
    LET splitPoint == Len(b.messages) \div 2
    IN  Buf(DropFirst(b.messages, splitPoint), DropFirst(b.tokenCounts, splitPoint),
            b.totalTokens - SumSeq(SubSeq(b.tokenCounts, 1, splitPoint)),
            IF b.summary # EmptyStr THEN b.summary \o BlankLine \o text ELSE text)

\* Add, lines 46-50: the buffer with msg and its cost appended
Appended(msg) ==
    Buf(Append(messages, msg), Append(tokenCounts, CountTokens(msg.Content)),
        totalTokens + CountTokens(msg.Content), summary)

SetBuf(b) ==
    /\ messages' = b.messages
    /\ tokenCounts' = b.tokenCounts
    /\ totalTokens' = b.totalTokens
    /\ summary' = b.summary

\* The buffer's fields now.
CurBuf == Buf(messages, tokenCounts, totalTokens, summary)

\* What Add returns when summarizeOldMessages returned summErr: the error
\* is dropped ("Log but don't fail"), Add ends with return nil.
AddReturn(summErr) == Nil

\* Simple.Add when no summarization is due or the summarizer fails
MemAdd ==
    /\ adds < MaxAdds
    /\ \E msg \in MemMessages :
        LET due == SummarizeDue(Appended(msg))
        IN  /\ SetBuf(trimToLimits(IF due THEN summarizeFailed(Appended(msg))
                                          ELSE Appended(msg)))
            /\ memOp' = [op |-> "Add", prev |-> CurBuf, msg |-> msg,
                         summarized |-> IF due THEN "failed" ELSE "none",
                         err |-> IF due THEN AddReturn("summarize failed") ELSE Nil,
                         given |-> IF due THEN toSummarize(Appended(msg)) ELSE <<>>,
                         text |-> EmptyStr]
    /\ adds' = adds + 1
    /\ got' = NoGot
    /\ UNCHANGED <<config, summarizer, bufMu, bufPc, observed>>
    /\ UNCHANGED <<chatVars, sliceVars, mwVars, ragVars>>

\* Simple.Add when summarization is due and the summarizer returns text
MemAddSummarize ==
    /\ adds < MaxAdds
    /\ \E msg \in MemMessages, text \in MemSummaryTexts :
        /\ SummarizeDue(Appended(msg))
        /\ SetBuf(trimToLimits(summarizeOldMessages(Appended(msg), text)))
        /\ memOp' = [op |-> "Add", prev |-> CurBuf, msg |-> msg,
                     summarized |-> "ok", err |-> Nil,
                     given |-> toSummarize(Appended(msg)), text |-> text]
    /\ adds' = adds + 1
    /\ got' = NoGot
    /\ UNCHANGED <<config, summarizer, bufMu, bufPc, observed>>
    /\ UNCHANGED <<chatVars, sliceVars, mwVars, ragVars>>

\* GetMessages, lines 93-100: the loop from the most recent turn backwards
RECURSIVE GetLoop(_, _, _, _)
GetLoop(i, result, tokenCount, maxT) ==
    IF i < 1 \/ tokenCount + tokenCounts[i] > maxT
    THEN result
    ELSE GetLoop(i - 1, <<messages[i]>> \o result, tokenCount + tokenCounts[i], maxT)

\* Simple.GetMessages
GetMessages(maxTokensArg) ==
    LET maxT == IF maxTokensArg <= 0 THEN config.MaxTokens ELSE maxTokensArg
        summaryTokens == CountTokens(summary)
        include == summary # EmptyStr /\ summaryTokens < maxT
    IN  GetLoop(Len(messages),
                IF include THEN <<Message(RoleSystem, MemSummaryPrefix \o summary)>> ELSE <<>>,
                IF include THEN summaryTokens ELSE 0,
                maxT)

MemGet ==
    /\ \E b \in Budgets : got' = [valid |-> TRUE, maxTokens |-> b, result |-> GetMessages(b)]
    /\ memOp' = [NoMemOp EXCEPT !.op = "Get", !.prev = CurBuf]
    /\ UNCHANGED <<messages, tokenCounts, totalTokens, config, summarizer, bufMu, bufPc, observed, summary, adds>>
    /\ UNCHANGED <<chatVars, sliceVars, mwVars, ragVars>>

\* Fault: Clear leaves the summary.
EmptyBuf_KeepsSummary == Buf(<<>>, <<>>, 0, summary)

\* Clear, lines 115-118: the values it assigns
EmptyBuf == Buf(<<>>, <<>>, 0, EmptyStr)

\* Simple.Clear
MemClear ==
    /\ SetBuf(EmptyBuf)
    /\ got' = NoGot
    /\ memOp' = [NoMemOp EXCEPT !.op = "Clear", !.prev = CurBuf]
    /\ UNCHANGED <<config, summarizer, bufMu, bufPc, observed, adds>>
    /\ UNCHANGED <<chatVars, sliceVars, mwVars, ragVars>>

\* ---------------------------------- bounded history buffer: its mutex
\* Fault: Add and Clear run without the write lock.
BufLocked_Not(w) == bufMu

\* s.mu.Lock() by w
BufLocked(w) == [bufMu EXCEPT !.w = w]

BufFrame == UNCHANGED <<config, summarizer, got, memOp, chatVars, sliceVars, mwVars, ragVars>>

\* Add, lines 42-50: Lock, count the tokens, append the turn and its cost.
AddLock(w) ==
    /\ bufPc[w] = "idle" /\ adds < MaxAdds
    /\ bufMu.w = Nil /\ bufMu.r = {}
    /\ \E msg \in MemMessages : SetBuf(Appended(msg))
    /\ bufMu' = BufLocked(w)
    /\ bufPc' = [bufPc EXCEPT ![w] = "AddSummarize"]
    /\ adds' = adds + 1
    /\ UNCHANGED observed
    /\ BufFrame

\* Add, lines 52-59: summarizeOldMessages when it is due; the summarizer
\* is called with the lock held and fails or returns text.
AddSummarize(w) ==
    /\ bufPc[w] = "AddSummarize"
    /\ IF SummarizeDue(CurBuf)
       THEN \/ SetBuf(summarizeFailed(CurBuf))
            \/ \E text \in MemSummaryTexts : SetBuf(summarizeOldMessages(CurBuf, text))
       ELSE UNCHANGED <<messages, tokenCounts, totalTokens, summary>>
    /\ bufPc' = [bufPc EXCEPT ![w] = "AddTrim"]
    /\ UNCHANGED <<bufMu, adds, observed>>
    /\ BufFrame

\* Add, line 62: trimToLimits.
AddTrim(w) ==
    /\ bufPc[w] = "AddTrim"
    /\ SetBuf(trimToLimits(CurBuf))
    /\ bufPc' = [bufPc EXCEPT ![w] = "Unlock"]
    /\ UNCHANGED <<bufMu, adds, observed>>
    /\ BufFrame

\* Clear, lines 112-118: Lock, reset the four fields.
BufClearLock(w) ==
    /\ bufPc[w] = "idle"
    /\ bufMu.w = Nil /\ bufMu.r = {}
    /\ SetBuf(EmptyBuf)
    /\ bufMu' = BufLocked(w)
    /\ bufPc' = [bufPc EXCEPT ![w] = "Unlock"]
    /\ UNCHANGED <<adds, observed>>
    /\ BufFrame

\* Add and Clear, the deferred s.mu.Unlock(); the method returns.
BufUnlock(w) ==
    /\ bufPc[w] = "Unlock"
    /\ bufMu' = [bufMu EXCEPT !.w = Nil]
    /\ bufPc' = [bufPc EXCEPT ![w] = "idle"]
    /\ UNCHANGED <<messages, tokenCounts, totalTokens, summary, adds, observed>>
    /\ BufFrame

\* Count, TokenCount, Summary, GetMessages: RLock and read; each accessor
\* returns a part of the fields read here.
BufRLock(r) ==
    /\ r \notin bufMu.r /\ bufMu.w = Nil
    /\ bufMu' = [bufMu EXCEPT !.r = @ \cup {r}]
    /\ observed' = [observed EXCEPT ![r] =
           [valid |-> TRUE, buf |-> CurBuf,
            busy |-> {w \in BufWriters : bufPc[w] # "idle"}]]
    /\ UNCHANGED <<messages, tokenCounts, totalTokens, summary, adds, bufPc>>
    /\ BufFrame

\* The accessors' deferred s.mu.RUnlock(); the accessor returns.
BufRUnlock(r) ==
    /\ r \in bufMu.r
    /\ bufMu' = [bufMu EXCEPT !.r = @ \ {r}]
    /\ observed' = [observed EXCEPT ![r] = NoObserved]
    /\ UNCHANGED <<messages, tokenCounts, totalTokens, summary, adds, bufPc>>
    /\ BufFrame

\* ------------------------------------------------------ similarity index
\* embedding.Document; Role stands for Metadata["role"]
Document(id, content, emb, role) ==
    [ID |-> id, Content |-> content, Embedding |-> emb, Role |-> role]

NoDocument == Document(<<>>, EmptyStr, <<>>, RoleUser)

Digit(d) ==
    CASE d = 0 -> "0" [] d = 1 -> "1" [] d = 2 -> "2" [] d = 3 -> "3" [] d = 4 -> "4"
      [] d = 5 -> "5" [] d = 6 -> "6" [] d = 7 -> "7" [] d = 8 -> "8" [] d = 9 -> "9"

\* fmt.Sprintf("%d", n), n >= 0
RECURSIVE Itoa(_)
Itoa(n) == IF n < 10 THEN <<Digit(n)>> ELSE Itoa(n \div 10) \o <<Digit(n % 10)>>

\* Fault: every turn is indexed under the same id.
MsgID_Constant(n) == <<"m", "s", "g", "_">>

\* fmt.Sprintf("msg_%d", m.messageID)
MsgID(n) == <<"m", "s", "g", "_">> \o Itoa(n)

RECURSIVE Dot(_, _)
Dot(a, b) == IF a = <<>> THEN 0 ELSE Head(a) * Head(b) + Dot(Tail(a), Tail(b))

\* CosineSimilarity without the zero-magnitude guard of lines 43-45: the
\* quotient 0/0 is then not a number, written -999 here.
CosineSimilarity_Unguarded(a, b) ==
    IF Len(a) # Len(b) THEN 0
    ELSE LET dotProduct == Dot(a, b)
             normA == Dot(a, a)
             normB == Dot(b, b)
         IN  IF normA = 0 \/ normB = 0 THEN -999
             ELSE (IF dotProduct < 0 THEN -1 ELSE 1)
                    * ((100 * dotProduct * dotProduct) \div (normA * normB))

\* embedding.CosineSimilarity. The value kept is sign(cos) * 100 * cos^2,
\* which orders as the cosine does and is exact for the vectors used here
\* (entries -1, 0, 1): 100 is cosine 1, 50 is cosine 0.707, 0 is cosine 0.
CosineSimilarity(a, b) ==
    IF Len(a) # Len(b) THEN 0
    ELSE LET dotProduct == Dot(a, b)
             normA == Dot(a, a)
             normB == Dot(b, b)
         IN  IF normA = 0 \/ normB = 0 THEN 0
             ELSE (IF dotProduct < 0 THEN -1 ELSE 1)
                    * ((100 * dotProduct * dotProduct) \div (normA * normB))

\* The position of the first document with this id, 0 if there is none.
IndexOfID(docs, id) ==
    IF \E i \in 1..Len(docs) : docs[i].ID = id
    THEN CHOOSE i \in 1..Len(docs) :
            docs[i].ID = id /\ \A j \in 1..(i - 1) : docs[j].ID # id
    ELSE 0

\* Fault: Add appends without looking for the id.
StoreAdd_Appends(docs, doc) == Append(docs, doc)

\* MemoryStore.Add
StoreAdd(docs, doc) ==
    LET i == IndexOfID(docs, doc.ID)
    IN  IF i > 0 THEN [docs EXCEPT ![i] = doc] ELSE Append(docs, doc)

\* MemoryStore.AddBatch
RECURSIVE StoreAddBatch(_, _)
StoreAddBatch(docs, batch) ==
    IF batch = <<>> THEN docs
    ELSE StoreAddBatch(StoreAdd(docs, Head(batch)), Tail(batch))

\* MemoryStore.Delete
StoreDelete(docs, id) ==
    LET i == IndexOfID(docs, id)
    IN  IF i > 0 THEN SubSeq(docs, 1, i - 1) \o SubSeq(docs, i + 1, Len(docs)) ELSE docs

SearchResult(doc, q) == [Document |-> doc, Similarity |-> CosineSimilarity(q, doc.Embedding)]

\* Search, lines 61-73: the results sort.Slice can leave, one per order of
\* the documents that is descending in similarity (sort.Slice is not
\* stable, so documents of equal similarity come in any order).
SortedResults(docs, q) ==
    LET n == Len(docs)
        orders == {p \in [1..n -> 1..n] : \A i, j \in 1..n : i # j => p[i] # p[j]}
        res(p) == [i \in 1..n |-> SearchResult(docs[p[i]], q)]
    IN  {res(p) : p \in {o \in orders :
            \A i, j \in 1..n : i < j => ~(res(o)[j].Similarity > res(o)[i].Similarity)}}

\* Search, line 80: results[:topK] with topK below 0 is a run-time panic.
SearchPanics(docs, topK) == Len(docs) > 0 /\ topK < 0

\* MemoryStore.Search when it returns: the results it can return
Search(docs, q, topK) ==
    IF Len(docs) = 0 THEN {<<>>}
    ELSE {SubSeq(r, 1, IF topK > Len(r) THEN Len(r) ELSE topK) : r \in SortedResults(docs, q)}

\* Inputs of the index's methods.
StoreIDs == {MsgID(1), MsgID(2), <<"d">>}
StoreVectors == {<<1, 0>>, <<1, 1>>, <<-1, 0>>, <<0, 0>>}
StoreDocs == {Document(id, <<"h", "i">>, v, RoleUser) : id \in StoreIDs, v \in StoreVectors}
StoreBatches ==
    {<<>>,
     <<Document(<<"d">>, <<"h", "i">>, <<1, 0>>, RoleUser),
       Document(<<"d">>, <<"h", "i">>, <<1, 1>>, RoleUser)>>,
     <<Document(MsgID(1), <<"h", "i">>, <<0, 0>>, RoleUser),
       Document(<<"d">>, <<"h", "i">>, <<-1, 0>>, RoleUser)>>}
QueryVectors == {<<1, 0>>, <<0, 0>>, <<1>>}
TopKs == {-1, 0, 1, 2, 5}

NoStoreOp ==
    [op |-> "None", prev |-> <<>>, doc |-> NoDocument, id |-> <<>>, query |-> <<>>,
     topK |-> 0, result |-> <<>>, panicked |-> FALSE]

\* NewMemoryStore
StoreInit ==
    /\ documents = <<>>
    /\ storeAdds = 0
    /\ storeOp = NoStoreOp

StoreFrame == UNCHANGED <<chatVars, sliceVars, mwVars, memVars, messageID, ragConfig, adder, minted, ragOp, pristine>>

StAdd ==
    /\ ~storeOp.panicked /\ storeAdds < MaxStoreAdds
    /\ \E doc \in StoreDocs :
        /\ documents' = StoreAdd(documents, doc)
        /\ storeOp' = [NoStoreOp EXCEPT !.op = "Add", !.prev = documents, !.doc = doc]
    /\ storeAdds' = storeAdds + 1
    /\ StoreFrame

StAddBatch ==
    /\ ~storeOp.panicked /\ storeAdds < MaxStoreAdds
    /\ \E batch \in StoreBatches :
        /\ documents' = StoreAddBatch(documents, batch)
        /\ storeOp' = [NoStoreOp EXCEPT !.op = "AddBatch", !.prev = documents]
    /\ storeAdds' = storeAdds + 1
    /\ StoreFrame

StSearch ==
    /\ ~storeOp.panicked
    /\ \E q \in QueryVectors, topK \in TopKs :
        IF SearchPanics(documents, topK)
        THEN storeOp' = [NoStoreOp EXCEPT !.op = "Search", !.prev = documents,
                                          !.query = q, !.topK = topK, !.panicked = TRUE]
        ELSE \E r \in Search(documents, q, topK) :
                storeOp' = [NoStoreOp EXCEPT !.op = "Search", !.prev = documents,
                                             !.query = q, !.topK = topK, !.result = r]
    /\ UNCHANGED <<documents, storeAdds>>
    /\ StoreFrame

StDelete ==
    /\ ~storeOp.panicked
    /\ \E id \in StoreIDs :
        /\ documents' = StoreDelete(documents, id)
        /\ storeOp' = [NoStoreOp EXCEPT !.op = "Delete", !.prev = documents, !.id = id]
    /\ UNCHANGED storeAdds
    /\ StoreFrame

StClear ==
    /\ ~storeOp.panicked
    /\ documents' = <<>>
    /\ storeOp' = [NoStoreOp EXCEPT !.op = "Clear", !.prev = documents]
    /\ UNCHANGED storeAdds
    /\ StoreFrame

\* -------------------------------------- retrieval-augmented buffer
\* One hundred bytes "a", and fifty two-byte characters (the UTF-8 bytes
\* C3 A9 of e-acute).
Ascii100 == [i \in 1..100 |-> "a"]
Wide50 == [i \in 1..100 |-> IF i % 2 = 1 THEN "C3" ELSE "A9"]

\* Turns added to the retrieval-augmented buffer: one of cost 0, one of
\* cost 1, and four of 101 bytes (cost 25) that pairwise share their first
\* 100 bytes.
RagHi == Message(RoleUser, <<"h", "i">>)
RagFour == Message(RoleUser, <<"f", "o", "u", "r">>)
RagLong1 == Message(RoleUser, Ascii100 \o <<"1">>)
RagLong2 == Message(RoleAssistant, Ascii100 \o <<"2">>)
RagWide1 == Message(RoleUser, Wide50 \o <<"x">>)
RagWide2 == Message(RoleAssistant, Wide50 \o <<"y">>)
RagMessages == {RagHi, RagLong1, RagLong2, RagWide1, RagWide2}
\* Turns added where the caller also writes to the index
RetrieveMessages == {RagHi, RagFour, RagLong1}
\* Queries of GetRelevant
RagQueries == {<<"q">>, <<"h", "i">>}

\* The embedder's answer when it succeeds: a fixed vector for each text.
Embed(text) ==
    CASE text = <<"h", "i">> -> <<1, 0>>
      [] text \in {RagLong1.Content, RagLong2.Content} -> <<1, 1>>
      [] OTHER -> <<0, 1>>

\* rag.Config: TopK, and MinSimilarity on CosineSimilarity's scale (49 is
\* the default 0.7)
DefaultMinSimilarity == 49
RagConfigs == {[TopK |-> k, MinSimilarity |-> DefaultMinSimilarity] : k \in {0, 1}}
\* rag.New
NewRAG(c) == IF c.TopK = 0 THEN [c EXCEPT !.TopK = 5] ELSE c

\* RAGMemoryConfig.MemoryConfig
RagMemConfigs ==
    {[MaxTokens |-> mt, MaxMessages |-> mm, SummarizeAfter |-> 0] :
        mt \in {60, 4000}, mm \in {0, 1}}
RetrieveMemConfigs ==
    {[MaxTokens |-> mt, MaxMessages |-> 0, SummarizeAfter |-> 0] : mt \in {1, 60}}
\* maxTokens arguments of RAGMemory.GetMessages
RagBudgets == {0, 30}

NoRagOp ==
    [op |-> "None", embedOk |-> TRUE, err |-> Nil, query |-> <<>>, recent |-> <<>>,
     relevant |-> <<>>, result |-> <<>>, prevDocs |-> <<>>, results |-> <<>>]

\* Goroutines calling Add on one RAGMemory, and one that is not inside Add.
Adders == {"a1", "a2"}
NoAdder == [pc |-> "idle", reg |-> 0, id |-> 0, msg |-> Message(RoleUser, EmptyStr)]

\* NewRAGMemory over rag.New and NewMemoryStore
RagInit(configs) ==
    /\ StoreInit
    /\ messageID = 0
    /\ ragConfig \in {NewRAG(c) : c \in configs}
    /\ ragOp = NoRagOp
    /\ pristine = TRUE
    /\ adder = [g \in Adders |-> NoAdder]
    /\ minted = <<>>

\* RAG.AddMessage: the document stored for a turn
MessageDocument(msg, id) == Document(id, msg.Content, Embed(msg.Content), msg.Role)

\* Fault: an indexing error is returned to the caller of Add.
RagAddReturn_Propagates(indexErr) == indexErr

\* What RAGMemory.Add returns when AddMessage returned indexErr: nil in
\* both branches.
RagAddReturn(indexErr) == Nil

\* RAGMemory.Add; its Simple has no summarizer.
RagAddOf(msgs) ==
    /\ adds < MaxRagAdds
    /\ \E msg \in msgs, embedOk \in BOOLEAN :
        /\ SetBuf(trimToLimits(Appended(msg)))
        /\ memOp' = [NoMemOp EXCEPT !.op = "Add", !.prev = CurBuf, !.msg = msg]
        /\ messageID' = messageID + 1
        /\ documents' = IF embedOk
                        THEN StoreAdd(documents, MessageDocument(msg, MsgID(messageID + 1)))
                        ELSE documents
        /\ ragOp' = [NoRagOp EXCEPT !.op = "Add", !.embedOk = embedOk,
                        !.err = RagAddReturn(IF embedOk THEN Nil ELSE "embed failed"),
                        !.prevDocs = documents]
        /\ pristine' = (pristine /\ embedOk)
    /\ adds' = adds + 1
    /\ got' = NoGot
    /\ UNCHANGED <<config, summarizer, bufMu, bufPc, observed, storeAdds, storeOp, ragConfig, adder, minted>>
    /\ UNCHANGED <<chatVars, sliceVars, mwVars, sliceVars, mwVars>>

RagAdd == RagAddOf(RagMessages)

\* RAGMemory.GetMessages
RagGetMessages ==
    /\ \E b \in RagBudgets : got' = [valid |-> TRUE, maxTokens |-> b, result |-> GetMessages(b)]
    /\ memOp' = [NoMemOp EXCEPT !.op = "Get", !.prev = CurBuf]
    /\ ragOp' = [NoRagOp EXCEPT !.op = "GetMessages", !.prevDocs = documents]
    /\ UNCHANGED <<messages, tokenCounts, totalTokens, config, summarizer, bufMu, bufPc, observed, summary, adds>>
    /\ UNCHANGED <<documents, storeAdds, storeOp, messageID, ragConfig, adder, minted, pristine>>
    /\ UNCHANGED <<chatVars, sliceVars, mwVars, sliceVars, mwVars>>

\* RAG.Retrieve, lines 114-132: the turns of the results at or above the
\* threshold
\* Metadata["role"] of a record that has no such key, and of one whose
\* value under the key is not a string.
NoRoleMeta == "<absent>"
IntRoleMeta == "<int>"

\* Fault: the metadata value is used whatever it is.
MetadataRole_Unchecked(doc) == doc.Role

\* Retrieve, lines 121-124: the type assertion on Metadata["role"]
MetadataRole(doc) == IF doc.Role \in {NoRoleMeta, IntRoleMeta} THEN RoleUser ELSE doc.Role

RECURSIVE ToMessages(_)
ToMessages(results) ==
    IF results = <<>> THEN <<>>
    ELSE (IF Head(results).Similarity < ragConfig.MinSimilarity THEN <<>>
          ELSE <<Message(MetadataRole(Head(results).Document), Head(results).Document.Content)>>)
         \o ToMessages(Tail(results))

\* The length of the dedup key
DedupKeyLen == 100

\* Fault: the whole content is the dedup key.
DedupKey_Whole(content) == content

\* GetRelevant, lines 93-96: key := msg.Content, cut to its first 100 bytes
DedupKey(content) ==
    IF Len(content) > DedupKeyLen THEN SubSeq(content, 1, DedupKeyLen) ELSE content

\* GetRelevant's loops over one list
RECURSIVE MergeLoop(_, _, _)
MergeLoop(msgs, seen, result) ==
    IF msgs = <<>> THEN [seen |-> seen, result |-> result]
    ELSE LET key == DedupKey(Head(msgs).Content)
         IN  IF key \in seen THEN MergeLoop(Tail(msgs), seen, result)
             ELSE MergeLoop(Tail(msgs), seen \cup {key}, Append(result, Head(msgs)))

\* GetRelevant, lines 88-115
Merge(recentMsgs, relevantMsgs) ==
    LET first == MergeLoop(recentMsgs, {}, <<>>)
    IN  MergeLoop(relevantMsgs, first.seen, first.result).result

\* Fault: the fallback returns nothing.
Fallback_Empty(recentMsgs) == <<>>

\* GetRelevant, lines 82-85: the result when Retrieve fails
Fallback(recentMsgs) == recentMsgs

\* RAGMemory.GetRelevant
RagGetRelevant ==
    /\ \E query \in RagQueries, embedOk \in BOOLEAN :
        LET recentMsgs == GetMessages(config.MaxTokens \div 2)
        IN  IF embedOk
            THEN \E r \in Search(documents, Embed(query), ragConfig.TopK) :
                    ragOp' = [NoRagOp EXCEPT !.op = "GetRelevant", !.query = query,
                                 !.recent = recentMsgs, !.relevant = ToMessages(r),
                                 !.result = Merge(recentMsgs, ToMessages(r)),
                                 !.prevDocs = documents, !.results = r]
            ELSE ragOp' = [NoRagOp EXCEPT !.op = "GetRelevant", !.query = query,
                              !.embedOk = FALSE, !.recent = recentMsgs,
                              !.result = Fallback(recentMsgs), !.prevDocs = documents]
    /\ got' = NoGot
    /\ memOp' = [NoMemOp EXCEPT !.op = "Get", !.prev = CurBuf]
    /\ UNCHANGED <<messages, tokenCounts, totalTokens, config, summarizer, bufMu, bufPc, observed, summary, adds>>
    /\ UNCHANGED <<documents, storeAdds, storeOp, messageID, ragConfig, adder, minted, pristine>>
    /\ UNCHANGED <<chatVars, sliceVars, mwVars, sliceVars, mwVars>>

\* RAGMemory.Clear
RagClear ==
    /\ SetBuf(EmptyBuf)
    /\ got' = NoGot
    /\ memOp' = [NoMemOp EXCEPT !.op = "Clear", !.prev = CurBuf]
    /\ documents' = <<>>
    /\ ragOp' = [NoRagOp EXCEPT !.op = "Clear", !.prevDocs = documents]
    /\ pristine' = FALSE
    /\ UNCHANGED <<config, summarizer, bufMu, bufPc, observed, adds, storeAdds, storeOp, messageID, ragConfig, adder, minted>>
    /\ UNCHANGED <<chatVars, sliceVars, mwVars, sliceVars, mwVars>>

\* Store().Delete(id) on the buffer's index
\* Records put into the index through RAG.Store() by the caller, with no
\* role metadata or with a role that is not a string.
ForeignDocs ==
    {Document(<<"d">>, <<"d", "o", "c">>, <<1, 0>>, r) : r \in {NoRoleMeta, IntRoleMeta}}

\* MemoryStore.Add called on the store of the RAG
RagStoreAdd ==
    /\ Len(documents) < MaxRagAdds
    /\ \E doc \in ForeignDocs : documents' = StoreAdd(documents, doc)
    /\ ragOp' = [NoRagOp EXCEPT !.op = "StoreAdd", !.prevDocs = documents]
    /\ pristine' = FALSE
    /\ got' = NoGot
    /\ memOp' = NoMemOp
    /\ UNCHANGED <<messages, tokenCounts, totalTokens, config, summarizer, bufMu, bufPc, observed, summary, adds>>
    /\ UNCHANGED <<storeAdds, storeOp, messageID, ragConfig, adder, minted>>
    /\ UNCHANGED <<chatVars, sliceVars, mwVars, sliceVars, mwVars>>

RagStoreDelete ==
    /\ \E id \in {MsgID(1), MsgID(2)} :
        documents' = StoreDelete(documents, id)
    /\ ragOp' = [NoRagOp EXCEPT !.op = "Delete", !.prevDocs = documents]
    /\ pristine' = FALSE
    /\ got' = NoGot
    /\ memOp' = NoMemOp
    /\ UNCHANGED <<messages, tokenCounts, totalTokens, config, summarizer, bufMu, bufPc, observed, summary, adds>>
    /\ UNCHANGED <<storeAdds, storeOp, messageID, ragConfig, adder, minted>>
    /\ UNCHANGED <<chatVars, sliceVars, mwVars, sliceVars, mwVars>>

\* ------------------- retrieval-augmented buffer: Add from several goroutines
\* RAGMemory has no mutex of its own; Simple and MemoryStore lock theirs.
RaceFrame ==
    UNCHANGED <<chatVars, sliceVars, mwVars, config, summarizer, summary, got, memOp, bufMu, bufPc,
                observed, storeAdds, storeOp, ragConfig, ragOp>>

\* Add, line 51: m.simple.Add, atomic under Simple.mu.
RaceSimpleAdd(g) ==
    /\ adder[g].pc = "idle" /\ adds < MaxRagAdds
    /\ \E msg \in {RagHi, RagLong1} :
        /\ SetBuf(trimToLimits(Appended(msg)))
        /\ adder' = [adder EXCEPT ![g] = [NoAdder EXCEPT !.pc = "Load", !.msg = msg]]
    /\ adds' = adds + 1
    /\ UNCHANGED <<documents, messageID, minted, pristine>>
    /\ UNCHANGED <<chatVars, sliceVars, mwVars, config, summarizer, got, memOp, bufMu, bufPc,
                   observed, storeAdds, storeOp, ragConfig, ragOp>>

\* Add, line 56: m.messageID++ loads the field ...
RaceLoad(g) ==
    /\ adder[g].pc = "Load"
    /\ adder' = [adder EXCEPT ![g].pc = "Store", ![g].reg = messageID]
    /\ UNCHANGED <<messages, tokenCounts, totalTokens, adds, documents, messageID,
                   minted, pristine>>
    /\ RaceFrame

\* ... and stores the loaded value plus one.
RaceStore(g) ==
    /\ adder[g].pc = "Store"
    /\ messageID' = adder[g].reg + 1
    /\ adder' = [adder EXCEPT ![g].pc = "Format"]
    /\ UNCHANGED <<messages, tokenCounts, totalTokens, adds, documents, minted, pristine>>
    /\ RaceFrame

\* Add, line 57: id := fmt.Sprintf("msg_%d", m.messageID) reads the field
\* again.
RaceFormat(g) ==
    /\ adder[g].pc = "Format"
    /\ adder' = [adder EXCEPT ![g].pc = "Index", ![g].id = messageID]
    /\ minted' = Append(minted, messageID)
    /\ UNCHANGED <<messages, tokenCounts, totalTokens, adds, documents, messageID,
                   pristine>>
    /\ RaceFrame

\* Add, lines 58-63: m.rag.AddMessage embeds the turn and, if that worked,
\* stores the document (atomic under MemoryStore.mu); Add returns nil.
RaceIndex(g) ==
    /\ adder[g].pc = "Index"
    /\ \E embedOk \in BOOLEAN :
        /\ documents' = IF embedOk
                        THEN StoreAdd(documents,
                                      MessageDocument(adder[g].msg, MsgID(adder[g].id)))
                        ELSE documents
        /\ pristine' = (pristine /\ embedOk)
    /\ adder' = [adder EXCEPT ![g] = NoAdder]
    /\ UNCHANGED <<messages, tokenCounts, totalTokens, adds, messageID, minted>>
    /\ RaceFrame

\* ------------------------------- session: history as a slice of an array
\* c.history is a slice: append writes into the backing array when the
\* capacity allows, c.history[:n] and c.history[n:] keep the array, and
\* compactHistory's recentMessages is a second slice of the same array,
\* read again after the summarizer call. The steps below are Stream, its
\* goroutine and compactHistory with the slices made explicit; every locked
\* section of Stream is one step, since nothing blocks inside it.

\* The turns of the k-th Stream call.
CallUser(k) == UserTurn(<<"u">> \o Itoa(k))
CallAssistant(k) == AssistantTurn(<<"a">> \o Itoa(k))

\* The capacity append gives the array it allocates (runtime.growslice for
\* small slices: twice the old capacity, or what is needed if that is more).
NewCap(old, needed) == IF 2 * old > needed THEN 2 * old ELSE needed

\* The session's history with its header, and the slices that share arrays.
Sl == [h |-> history, hdr |-> hdr, allocs |-> allocs, views |-> views]

SetSl(s) ==
    /\ history' = s.h
    /\ hdr' = s.hdr
    /\ allocs' = s.allocs
    /\ views' = s.views

\* Fault: append always copies into a new array.
AppendTo_Copies(s, turn) ==
    [s EXCEPT !.h = Append(s.h, turn),
              !.hdr = [id |-> s.allocs + 1, lo |-> 0, cap |-> Len(s.h) + 1],
              !.allocs = s.allocs + 1]

\* append(c.history, turn): in place at index lo+len of the array when the
\* capacity allows (every slice of the array that covers the index sees the
\* new turn), into a new array otherwise.
AppendTo(s, turn) ==
    LET at == s.hdr.lo + Len(s.h)
    IN  IF at < s.hdr.cap
        THEN [s EXCEPT !.h = Append(s.h, turn),
                       !.views = [k \in Calls |->
                           LET v == s.views[k]
                           IN  IF v.id = s.hdr.id /\ v.lo <= at /\ at < v.lo + Len(v.cells)
                               THEN [v EXCEPT !.cells[at - v.lo + 1] = turn]
                               ELSE v]]
        ELSE [s EXCEPT !.h = Append(s.h, turn),
                       !.hdr = [id |-> s.allocs + 1, lo |-> 0,
                                cap |-> NewCap(s.hdr.cap - s.hdr.lo, Len(s.h) + 1)],
                       !.allocs = s.allocs + 1]

\* trimHistory, lines 222-232: c.history[excess:] and c.history[1:]
TrimSlice(s) ==
    LET kept == TrimByTokens(TrimByCount(s.h))
    IN  [s EXCEPT !.h = kept, !.hdr.lo = s.hdr.lo + (Len(s.h) - Len(kept))]

\* compactHistory, line 260: recentMessages := c.history[len-keepRecent:]
RecentSlice(s) ==
    [id |-> s.hdr.id, lo |-> s.hdr.lo + Len(s.h) - autocompact.KeepRecent,
     cap |-> s.hdr.cap, cells |-> RecentOf(s.h)]

CallsIdle == \A k \in Calls : call[k] # "panic"

SliceFrame ==
    /\ UNCHANGED <<system, historyLimit, maxTokens, tokenCounter, autocompact,
                   conversationSummary, mu, pc, message, req, resp, err, ret,
                   recentMessages, summaryContent, summaryErr, fullContent,
                   delivered, panicked, ops, hist0, compactFrom, compactSum,
                   trimmed, completed>>
    /\ UNCHANGED <<memVars, ragVars, mwVars>>

\* Stream, lines 101-116: Lock, append the user turn, Unlock.
SlStream(k) ==
    /\ CallsIdle /\ call[k] = "new"
    /\ \A j \in Calls : j < k => call[j] # "new"
    /\ SetSl(AppendTo(Sl, CallUser(k)))
    /\ appendOrder' = Append(appendOrder, CallUser(k))
    /\ call' = [call EXCEPT ![k] = "StreamCall"]
    /\ SliceFrame

\* Stream, lines 119-125: the handler failed; Lock, c.history[:len-1],
\* Unlock (a panic on an empty history).
SlStreamFail(k) ==
    /\ CallsIdle /\ call[k] = "StreamCall"
    /\ IF Len(history) = 0
       THEN /\ call' = [call EXCEPT ![k] = "panic"]
            /\ UNCHANGED history
       ELSE /\ call' = [call EXCEPT ![k] = "off"]
            /\ history' = DropLast(history)
    /\ UNCHANGED <<hdr, allocs, views, appendOrder>>
    /\ SliceFrame

\* Stream, lines 128-150: the handler returned a channel; the goroutine
\* starts.
SlStreamStart(k) ==
    /\ CallsIdle /\ call[k] = "StreamCall"
    /\ call' = [call EXCEPT ![k] = "GLoop"]
    /\ UNCHANGED <<history, hdr, allocs, views, appendOrder>>
    /\ SliceFrame

\* The goroutine, lines 137-145, on the done event of its stream: Lock,
\* append the assistant turn, trimHistory; compactHistory takes its two
\* slices and unlocks for the summarizer call.
SlDone(k) ==
    /\ CallsIdle /\ call[k] = "GLoop"
    /\ LET s == AppendTo(Sl, CallAssistant(k))
       IN  IF CompactSplits(s.h)
           THEN /\ SetSl([s EXCEPT !.views[k] = RecentSlice(s)])
                /\ call' = [call EXCEPT ![k] = "CompactCall"]
           ELSE /\ SetSl(IF ShouldCompact(s.h) THEN s ELSE TrimSlice(s))
                /\ call' = [call EXCEPT ![k] = "off"]
    /\ appendOrder' = Append(appendOrder, CallAssistant(k))
    /\ SliceFrame

\* compactHistory, lines 297-314: the summarizer returned (with a summary
\* or an error); Lock, c.history = recentMessages, and Unlock in the caller.
SlCompactRelock(k) ==
    /\ CallsIdle /\ call[k] = "CompactCall"
    /\ history' = views[k].cells
    /\ hdr' = [id |-> views[k].id, lo |-> views[k].lo, cap |-> views[k].cap]
    /\ views' = [views EXCEPT ![k] = NoView]
    /\ call' = [call EXCEPT ![k] = "off"]
    /\ UNCHANGED <<allocs, appendOrder>>
    /\ SliceFrame

\* --------------------------------------------- middleware: Retry, Fallback
\* RetryConfig values: MaxAttempts from 0, no delay or one unit of delay
\* doubled up to two units, with and without jitter.
RetryConfigs ==
    {[MaxAttempts |-> n, InitialDelay |-> d, MaxDelay |-> 2, Multiplier |-> 2, Jitter |-> j] :
        n \in 0..MaxRetryAttempts, d \in {0, 1}, j \in BOOLEAN}

\* What the wrapped handler returns to Retry.
RetryOutcomes ==
    {Returned("primary", NoErr)}
    \cup {Returned(Nil, ProviderError("primary", code)) : code \in {400, 429, 499, 500, 503}}
    \cup {Returned(Nil, PlainError("primary"))}

\* ProviderError.IsRetryable
IsRetryable(e) == e.status = 429 \/ e.status >= 500

\* Fault: every provider error is retried.
isRetryable_AnyProviderError(e) == e.kind = "provider"

\* isRetryable
isRetryable(e) == e.kind = "provider" /\ IsRetryable(e)

\* Retry, line 39: the loop condition; after the loop, return nil, lastErr.
RetryLoop(r) ==
    IF r.attempt <= r.cfg.MaxAttempts
    THEN [r EXCEPT !.pc = "Call"]
    ELSE [r EXCEPT !.pc = "Done", !.ret = Returned(Nil, r.lastErr)]

\* Retry, lines 58-62: the jitter added to the delay, a random share of
\* three tenths of it, truncated.
Jitters(r) == IF r.cfg.Jitter THEN 0..((3 * r.delay) \div 10) ELSE {0}

\* Retry, lines 72-75: the delay of the next wait.
NextDelay(r) ==
    IF r.delay * r.cfg.Multiplier > r.cfg.MaxDelay
    THEN r.cfg.MaxDelay ELSE r.delay * r.cfg.Multiplier

MwFrame == UNCHANGED <<chatVars, memVars, ragVars, sliceVars>>

\* Retry(config) wraps a handler and the result is called with a request:
\* lines 33-39.
RetryStart ==
    /\ retry.pc = "idle"
    /\ \E c \in RetryConfigs :
        retry' = RetryLoop([retry EXCEPT !.cfg = c, !.attempt = 1, !.lastErr = NoErr,
                                         !.delay = c.InitialDelay])
    /\ UNCHANGED <<ctxDone, fallback>>
    /\ MwFrame

\* Fault: the attempts are not counted against MaxAttempts.
Exhausted_Never(r) == FALSE

\* Retry, line 53: the attempts are used up.
Exhausted(r) == r.attempt >= r.cfg.MaxAttempts

\* Retry, lines 40-61: next returns; a response is returned, an error that
\* is not retryable is returned, the last attempt ends the loop, and
\* otherwise the wait begins.
RetryCall ==
    /\ retry.pc = "Call"
    /\ \E o \in RetryOutcomes :
        LET r == [retry EXCEPT !.outcomes = Append(@, o)]
        IN  IF o.err = NoErr
            THEN retry' = [r EXCEPT !.pc = "Done", !.ret = Returned(o.resp, NoErr)]
            ELSE IF ~isRetryable(o.err)
            THEN retry' = [r EXCEPT !.pc = "Done", !.lastErr = o.err,
                                    !.ret = Returned(Nil, o.err)]
            ELSE IF Exhausted(r)
            THEN retry' = [r EXCEPT !.pc = "Done", !.lastErr = o.err,
                                    !.ret = Returned(Nil, o.err)]
            ELSE \E j \in Jitters(r) :
                    retry' = [r EXCEPT !.pc = "Select", !.lastErr = o.err,
                                       !.waitTime = r.delay + j]
    /\ UNCHANGED <<ctxDone, fallback>>
    /\ MwFrame

\* Retry, lines 72-75 and the loop's attempt++.
Retried(r) == RetryLoop([r EXCEPT !.delay = NextDelay(r), !.attempt = r.attempt + 1])

\* Retry, lines 65-69: the select is reached. A case that is ready is
\* taken (either one when both are: the timer of a wait of no time may have
\* fired already); with none ready the goroutine waits.
RetrySelect ==
    /\ retry.pc = "Select"
    /\ \E timer \in IF retry.waitTime = 0 THEN BOOLEAN ELSE {FALSE} :
        LET ready == (IF ctxDone THEN {"ctx"} ELSE {}) \cup (IF timer THEN {"timer"} ELSE {})
            r == [retry EXCEPT !.ready = ready]
        IN  \/ /\ "ctx" \in ready
               /\ retry' = [r EXCEPT !.pc = "Done", !.ret = Returned(Nil, CtxErr)]
            \/ /\ "timer" \in ready
               /\ retry' = Retried(r)
            \/ /\ ready = {}
               /\ retry' = [r EXCEPT !.pc = "Wait"]
    /\ UNCHANGED <<ctxDone, fallback>>
    /\ MwFrame

\* The timer fires while the goroutine waits in the select.
RetryTimer ==
    /\ retry.pc = "Wait"
    /\ retry' = Retried([retry EXCEPT !.ready = {"timer"}])
    /\ UNCHANGED <<ctxDone, fallback>>
    /\ MwFrame

\* The context is cancelled while the goroutine waits in the select.
RetryCancelled ==
    /\ retry.pc = "Wait" /\ ~ctxDone
    /\ ctxDone' = TRUE
    /\ retry' = [retry EXCEPT !.pc = "Done", !.ready = {"ctx"},
                              !.ret = Returned(Nil, CtxErr)]
    /\ UNCHANGED fallback
    /\ MwFrame

\* The context is cancelled at another moment of the request.
CtxCancel ==
    /\ ~ctxDone
    /\ retry.pc \in {"Call", "Select"} \/ fallback.pc \in {"Primary", "Loop", "Call"}
    /\ ctxDone' = TRUE
    /\ UNCHANGED <<retry, fallback>>
    /\ MwFrame

\* The fallback providers of a FallbackConfig, by position.
ProviderName(i) == IF i = 0 THEN "primary" ELSE IF i = 1 THEN "backup1"
                   ELSE IF i = 2 THEN "backup2" ELSE "backup3"

\* What the primary handler or a fallback provider returns.
ProviderOutcomes(p) ==
    {Returned(p, NoErr), Returned(Nil, ProviderError(p, 503)), Returned(Nil, PlainError(p))}

\* Fallback(config) wraps a handler and the result is called with a
\* request: lines 353-355.
FbStart ==
    /\ fallback.pc = "idle"
    /\ \E n \in 0..MaxProviders : fallback' = [fallback EXCEPT !.pc = "Primary", !.n = n]
    /\ UNCHANGED <<ctxDone, retry>>
    /\ MwFrame

\* Fallback, lines 357-360: the primary handler is called.
FbPrimary ==
    /\ fallback.pc = "Primary"
    /\ \E o \in ProviderOutcomes(ProviderName(0)) :
        LET f == [fallback EXCEPT !.tried = Append(@, o)]
        IN  IF o.err = NoErr
            THEN fallback' = [f EXCEPT !.pc = "Done", !.ret = Returned(o.resp, NoErr)]
            ELSE fallback' = [f EXCEPT !.pc = "Loop", !.err = o.err, !.i = 1]
    /\ UNCHANGED <<ctxDone, retry>>
    /\ MwFrame

\* Fault: the context is not looked at before a fallback provider.
CtxChecked_Never(done) == FALSE

\* Fallback, lines 369-373: the select on ctx.Done() with a default.
CtxChecked(done) == done

\* Fallback, lines 368-373 and 386: the next fallback provider, unless the
\* context is done; after the last one, return nil, err.
FbLoop ==
    /\ fallback.pc = "Loop"
    /\ fallback' =
          IF fallback.i > fallback.n
          THEN [fallback EXCEPT !.pc = "Done", !.ret = Returned(Nil, fallback.err)]
          ELSE IF CtxChecked(ctxDone)
          THEN [fallback EXCEPT !.pc = "Done", !.checked = ctxDone,
                                !.ret = Returned(Nil, CtxErr)]
          ELSE [fallback EXCEPT !.pc = "Call", !.checked = ctxDone]
    /\ UNCHANGED <<ctxDone, retry>>
    /\ MwFrame

\* Fallback, lines 375-378: provider.Complete returns.
FbCall ==
    /\ fallback.pc = "Call"
    /\ \E o \in ProviderOutcomes(ProviderName(fallback.i)) :
        LET f == [fallback EXCEPT !.tried = Append(@, o)]
        IN  IF o.err = NoErr
            THEN fallback' = [f EXCEPT !.pc = "Done", !.ret = Returned(o.resp, NoErr)]
            ELSE fallback' = [f EXCEPT !.pc = "Loop", !.err = o.err, !.i = fallback.i + 1]
    /\ UNCHANGED <<ctxDone, retry>>
    /\ MwFrame

\* ------------------------------------------------------- specifications
\* No session in use.
ChatIdle ==
    ChatInit({DefaultHistoryLimit}, {NoAutocompact}, {<<0, Nil>>}, {<<>>}, {EmptyStr})
\* No buffer in use.
MemIdle == MemInit({[MaxTokens |-> 4000, MaxMessages |-> 100, SummarizeAfter |-> 0]}, {FALSE})
\* No index and no retrieval-augmented buffer in use.
RagIdle == RagInit({[TopK |-> 5, MinSimilarity |-> DefaultMinSimilarity]})

Init ==
    /\ ChatInit({2, DefaultHistoryLimit}, {NoAutocompact, Autocompact(2, 1)},
                {<<0, Nil>>}, {<<>>}, {EmptyStr})
    /\ MemIdle
    /\ RagIdle

\* One caller, the configurations.
InitSeq ==
    /\ \/ ChatInit(HistoryLimits, AutocompactConfigs, {<<0, Nil>>}, SeedHistories,
                   {EmptyStr})
       \/ ChatInit({DefaultHistoryLimit}, {NoAutocompact, Autocompact(2, 1)},
                   {<<0, Nil>>}, {<<>>}, SystemPrompts)
       \/ ChatInit({DefaultHistoryLimit}, {NoAutocompact, Autocompact(4, 3)},
                   TokenLimits, {<<>>}, {EmptyStr})
    /\ MemIdle
    /\ RagIdle

\* Two callers and their forwarding goroutines, in every interleaving.
Next ==
    \/ \E c \in Callers : Step(c, MaxOps)
    \/ \E g \in Forwarders : Forward(g, ShortStreams)

Spec == Init /\ [][Next]_vars

\* One caller and its forwarding goroutine.
NextSeq ==
    \/ Step("c1", MaxSeqOps)
    \/ Forward("g1", ProviderStreams)

SpecSeq == InitSeq /\ [][NextSeq]_vars

InitMem == ChatIdle /\ MemInit(MemConfigs, {FALSE, TRUE}) /\ RagIdle

NextMem == MemAdd \/ MemAddSummarize \/ MemGet \/ MemClear

SpecMem == InitMem /\ [][NextMem]_vars

\* The bounded buffer shared by two writers and a reader, Add in its steps.
InitMemLock == ChatIdle /\ MemInit(MemConfigs, {FALSE, TRUE}) /\ RagIdle

NextMemLock ==
    \/ \E w \in BufWriters :
          AddLock(w) \/ AddSummarize(w) \/ AddTrim(w) \/ BufClearLock(w) \/ BufUnlock(w)
    \/ \E r \in BufReaders : BufRLock(r) \/ BufRUnlock(r)

SpecMemLock == InitMemLock /\ [][NextMemLock]_vars

\* A session with autocompaction and a bounded buffer with a summarizer in
\* one program. The two objects share no field, so their steps commute; the
\* session's calls are taken first and the buffer's calls once the session
\* is at rest.
InitSummaries ==
    /\ ChatInit({DefaultHistoryLimit}, {Autocompact(2, 1)}, {<<0, Nil>>}, {<<>>},
                {EmptyStr})
    /\ MemInit({[MaxTokens |-> 4000, MaxMessages |-> 0, SummarizeAfter |-> 2]}, {TRUE})
    /\ RagIdle

NextSummaries ==
    \/ /\ adds = 0 /\ memOp = NoMemOp
       /\ Step("c1", MaxOps) \/ Forward("g1", ShortStreams)
    \/ /\ \A t \in Threads : pc[t] \in {"idle", "off"}
       /\ MemAdd \/ MemAddSummarize \/ MemClear

SpecSummaries == InitSummaries /\ [][NextSummaries]_vars

\* The similarity index alone.
InitStore == ChatIdle /\ MemIdle /\ RagIdle

NextStore == StAdd \/ StAddBatch \/ StSearch \/ StDelete \/ StClear

SpecStore == InitStore /\ [][NextStore]_vars

\* The retrieval-augmented buffer over its bounded buffer and its index.
InitRag == ChatIdle /\ MemInit(RagMemConfigs, {FALSE}) /\ RagInit(RagConfigs)

NextRag == RagAdd \/ RagGetMessages \/ RagGetRelevant \/ RagClear \/ RagStoreDelete

SpecRag == InitRag /\ [][NextRag]_vars

\* Add called on one retrieval-augmented buffer by two goroutines.
\* A retrieval-augmented buffer whose index the caller also writes to
InitRetrieve == ChatIdle /\ MemInit(RetrieveMemConfigs, {FALSE}) /\ RagInit(RagConfigs)

NextRetrieve == RagAddOf(RetrieveMessages) \/ RagGetRelevant \/ RagStoreAdd

SpecRetrieve == InitRetrieve /\ [][NextRetrieve]_vars

\* A session used through Stream only, with compaction at four turns that
\* keeps two, and with or without a limit of three turns.
InitSlices ==
    /\ ChatInit({0, 3}, {Autocompact(4, 2)}, {<<0, Nil>>}, {<<>>}, {EmptyStr})
    /\ MemIdle /\ RagIdle

NextSlices ==
    \E k \in Calls :
        SlStream(k) \/ SlStreamFail(k) \/ SlStreamStart(k) \/ SlDone(k) \/ SlCompactRelock(k)

SpecSlices == InitSlices /\ [][NextSlices]_vars

\* One request through a handler wrapped by Retry.
InitRetry == ChatIdle /\ MemIdle /\ RagIdle

NextRetry ==
    RetryStart \/ RetryCall \/ RetrySelect \/ RetryTimer \/ RetryCancelled \/ CtxCancel

SpecRetry == InitRetry /\ [][NextRetry]_vars

\* One request through a handler wrapped by Fallback.
InitFallback == ChatIdle /\ MemIdle /\ RagIdle

NextFallback == FbStart \/ FbPrimary \/ FbLoop \/ FbCall \/ CtxCancel

SpecFallback == InitFallback /\ [][NextFallback]_vars

InitRagRace ==
    /\ ChatIdle
    /\ MemInit({[MaxTokens |-> 4000, MaxMessages |-> 0, SummarizeAfter |-> 0]}, {FALSE})
    /\ RagInit(RagConfigs)

NextRagRace ==
    \E g \in Adders :
        RaceSimpleAdd(g) \/ RaceLoad(g) \/ RaceStore(g) \/ RaceFormat(g) \/ RaceIndex(g)

SpecRagRace == InitRagRace /\ [][NextRagRace]_vars

\* ----------------------------------------------------------------- claims
\* C1: whenever the request handler returns an error to a Send, then at
\* Send's return the history equals the history at Send's start (same
\* turns, same order, same length) and Send returns that error, with no
\* response.
C1_SendRollback ==
    \A c \in Callers :
        (pc[c] = "SendUnlock" /\ err[c] # Nil) =>
            /\ history = hist0[c]
            /\ ret[c] = [val |-> <<>>, err |-> err[c]]

\* A failed Send on a session that already holds turns is about to return.
C1_Witness ==
    \E c \in Callers : pc[c] = "SendUnlock" /\ err[c] # Nil /\ hist0[c] # <<>>

\* C2: while a Send's handler call is in progress the session lock is not
\* held, so a concurrent History() or Summary() can take the read lock.
C2_HandlerCalledUnlocked ==
    \A c \in Callers : pc[c] = "SendCall" => CanRLock

\* A stream that failed: it delivered an error event (a provider error or a
\* cancelled context), or it ended with no done event.
StreamFailed(d) ==
    \/ \E i \in 1..Len(d) : d[i].Error # Nil
    \/ \A i \in 1..Len(d) : ~d[i].Done

\* C3: when the only call made on the session is a Stream whose event
\* sequence fails, the history is back to its value before the call at the
\* moment the provider closes the stream.
C3_FailedStreamLeavesNoTrace ==
    [][\A g \in Forwarders :
          (ops = 1 /\ pc[g] = "GLoop" /\ pc'[g] = "off" /\ StreamFailed(delivered[g]))
              => history = hist0[g]]_vars

\* A call is in flight from the append of its user turn until its assistant
\* turn is appended or the user turn is rolled back.
InFlight(c) ==
    \/ pc[c] \in {"SendCall", "StreamCall"}
    \/ pc[Forwarder(c)] = "GAppend"
    \/ pc[Forwarder(c)] = "GLoop" /\ \A i \in 1..Len(delivered[Forwarder(c)]) :
                                         ~delivered[Forwarder(c)][i].Done

\* C4: at most one Send/Stream is in flight on the session at a time.
C4_OneInFlight ==
    Cardinality({c \in Callers : InFlight(c)}) <= 1

Quiescent ==
    /\ \A c \in Callers : pc[c] = "idle"
    /\ \A g \in Forwarders : pc[g] = "off"

\* C6: with nothing in progress and a Send/Stream completed, the history
\* holds at most historyLimit turns whenever historyLimit > 0.
C6_WithinHistoryLimit ==
    (Quiescent /\ completed /\ historyLimit > 0) => Len(history) <= historyLimit

\* C7: a successful Send that leaves the history two turns longer returns
\* with the history equal to the history at its start followed by the user
\* turn with its message and the assistant turn with the handler's response
\* content, and returns that response.
C7_SendAppendsTwoTurns ==
    \A c \in Callers :
        (pc[c] = "SendUnlock" /\ err[c] = Nil /\ Len(history) = Len(hist0[c]) + 2) =>
            /\ history = hist0[c] \o <<[Role |-> RoleUser, Content |-> message[c]],
                                       [Role |-> RoleAssistant, Content |-> resp[c]]>>
            /\ ret[c] = [val |-> resp[c], err |-> Nil]

\* A successful Send on a session that already holds turns is about to
\* return, nothing removed.
C7_Witness ==
    \E c \in Callers :
        /\ pc[c] = "SendUnlock" /\ err[c] = Nil
        /\ hist0[c] # <<>> /\ Len(history) = Len(hist0[c]) + 2

\* C8: when Clear returns, the history is empty and the summary is the
\* empty string.
C8_ClearResets ==
    \A c \in Callers :
        pc[c] = "ClearUnlock" => history = <<>> /\ conversationSummary = EmptyStr

\* The turns of a GetMessages result that come from the history, and the
\* synthetic summary turns (the buffers here are given no system turns).
HistoryTurns(res) == SelectSeq(res, LAMBDA m : m.Role # RoleSystem)
SummaryTurns(res) == SelectSeq(res, LAMBDA m : m.Role = RoleSystem)
IsSuffix(s, t) == Len(s) <= Len(t) /\ SubSeq(t, Len(t) - Len(s) + 1, Len(t)) = s

RECURSIVE EstimatedCost(_)
EstimatedCost(res) ==
    IF res = <<>> THEN 0 ELSE CountTokens(Head(res).Content) + EstimatedCost(Tail(res))

\* C9: for maxCost > 0, everything GetMessages returns, the synthetic
\* summary turn included,
\* costs at most maxCost by the estimator, the turns are a suffix of the
\* history, and the result is empty if the newest turn exceeds maxCost.
C9_BudgetRespected ==
    (got.valid /\ got.maxTokens > 0) =>
        /\ IsSuffix(HistoryTurns(got.result), messages)
        /\ EstimatedCost(got.result) <= got.maxTokens
        /\ (messages # <<>> /\ CountTokens(messages[Len(messages)].Content) > got.maxTokens)
              => got.result = <<>>

\* C10: when GetMessages includes the standing summary, the synthetic
\* system turn is the first element of the result and the history turns
\* follow it in history order.
C10_SummaryLeads ==
    (got.valid /\ SummaryTurns(got.result) # <<>>) =>
        /\ got.result[1] = [Role |-> RoleSystem, Content |-> MemSummaryPrefix \o summary]
        /\ IsSuffix(Tail(got.result), messages)

\* The last k elements of s.
SuffixOf(s, k) == SubSeq(s, Len(s) - k + 1, Len(s))

\* A turn sequence within the buffer's ceilings (MaxMessages = 0: no
\* count ceiling).
WithinLimits(ms) ==
    /\ config.MaxMessages > 0 => Len(ms) <= config.MaxMessages
    /\ EstimatedCost(ms) <= config.MaxTokens

\* C11: after an Add on a buffer without a summarizer, the buffer holds
\* the longest suffix of (previous contents followed by the new turn) that
\* has at most MaxMessages turns and total cost at most MaxTokens.
C11_TrimToLimits ==
    (memOp.op = "Add" /\ ~summarizer) =>
        LET all == Append(memOp.prev.messages, memOp.msg)
        IN  /\ IsSuffix(messages, all)
            /\ WithinLimits(messages)
            /\ \A k \in 0..Len(all) :
                  WithinLimits(SuffixOf(all, k)) => k <= Len(messages)

\* An Add without a summarizer whose cost trim dropped two turns at once.
C11_Witness ==
    /\ memOp.op = "Add" /\ ~summarizer
    /\ config.MaxMessages = 0
    /\ Len(messages) + 2 <= Len(memOp.prev.messages) + 1

\* C12: the cost tally is as long as the turn sequence, each entry is the
\* cost of its turn, and the entries sum to the stored total.
C12_TallyInvariant ==
    /\ Len(tokenCounts) = Len(messages)
    /\ \A i \in 1..Len(messages) : tokenCounts[i] = CountTokens(messages[i].Content)
    /\ SumSeq(tokenCounts) = totalTokens

\* An Add that summarized the older half and left turns of positive cost.
C12_Witness ==
    /\ memOp.op = "Add" /\ memOp.summarized = "ok"
    /\ messages # <<>> /\ totalTokens > 0
    /\ memOp.prev.totalTokens > totalTokens

\* C13: after Clear the buffer has no turns, total cost 0 and an empty
\* summary, GetMessages returns the empty sequence for every budget, and
\* a Clear of an already cleared buffer leaves it as it was.
C13_ClearIdempotent ==
    memOp.op = "Clear" =>
        /\ Len(messages) = 0 /\ totalTokens = 0 /\ summary = EmptyStr
        /\ \A b \in Budgets : GetMessages(b) = <<>>
        /\ (memOp.prev.messages = <<>> /\ memOp.prev.totalTokens = 0
               /\ memOp.prev.summary = EmptyStr) => CurBuf = memOp.prev

\* A Clear of a buffer that held turns and a standing summary.
C13_Witness ==
    /\ memOp.op = "Clear"
    /\ memOp.prev.messages # <<>> /\ memOp.prev.summary # EmptyStr

\* C14: when the summarizer fails, Add returns no error and the turns,
\* the tally, the total and the summary are what trim-to-limits alone
\* makes of the previous buffer with the new turn appended.
C14_SummarizerFailureTolerated ==
    (memOp.op = "Add" /\ memOp.summarized = "failed") =>
        /\ memOp.err = Nil
        /\ LET cost == CountTokens(memOp.msg.Content)
           IN  CurBuf = trimToLimits(Buf(Append(memOp.prev.messages, memOp.msg),
                                         Append(memOp.prev.tokenCounts, cost),
                                         memOp.prev.totalTokens + cost,
                                         memOp.prev.summary))

\* An Add whose summarizer failed on a buffer that already had a summary.
C14_Witness ==
    /\ memOp.op = "Add" /\ memOp.summarized = "failed"
    /\ memOp.prev.summary # EmptyStr /\ messages # <<>>

\* C15: the index holds one record per Add while every Add was indexed
\* and nothing was deleted or cleared, whatever the bounded window evicted;
\* and no Add, GetMessages or GetRelevant lowers the number of records.
C15_IndexNeverShrinks ==
    /\ [](pristine => Len(documents) = adds)
    /\ [][ragOp'.op \in {"Add", "GetMessages", "GetRelevant"}
             => Len(documents') >= Len(documents)]_vars

\* Two Adds were indexed and the bounded window has evicted a turn.
C15_Witness ==
    /\ ragOp.op = "Add" /\ pristine
    /\ Len(documents) = 2 /\ Len(messages) < 2

\* C16: when indexing fails, Add returns no error, the index is as it was,
\* and the bounded buffer is what trim-to-limits makes of the previous
\* buffer with the turn appended.
C16_IndexFailureSwallowed ==
    (ragOp.op = "Add" /\ ~ragOp.embedOk) =>
        /\ ragOp.err = Nil
        /\ documents = ragOp.prevDocs
        /\ LET cost == CountTokens(memOp.msg.Content)
           IN  CurBuf = trimToLimits(Buf(Append(memOp.prev.messages, memOp.msg),
                                         Append(memOp.prev.tokenCounts, cost),
                                         memOp.prev.totalTokens + cost,
                                         memOp.prev.summary))

\* An Add whose indexing failed, with earlier turns indexed, and whose
\* turn is the newest of the buffer.
C16_Witness ==
    /\ ragOp.op = "Add" /\ ~ragOp.embedOk
    /\ documents # <<>>
    /\ messages # <<>> /\ messages[Len(messages)] = memOp.msg

\* The first 100 bytes of a content, the whole content if it is shorter.
ByteKey(content) ==
    SubSeq(content, 1, IF Len(content) < DedupKeyLen THEN Len(content) ELSE DedupKeyLen)

\* The positions at which a character of a content starts (UTF-8: the
\* byte A9 continues the character the byte before it started).
CharStarts(content) == {i \in 1..Len(content) : content[i] # "A9"}

\* The first 100 characters of a content, the whole content if it is
\* shorter.
CharKey(content) ==
    LET starts == CharStarts(content)
    IN  IF Cardinality(starts) <= DedupKeyLen THEN content
        ELSE LET p == CHOOSE q \in starts :
                        Cardinality({k \in starts : k < q}) = DedupKeyLen
             IN  SubSeq(content, 1, p - 1)

KeyBy(unit, content) == IF unit = "bytes" THEN ByteKey(content) ELSE CharKey(content)

\* The turns of cat, from position i on, that no earlier turn of cat
\* shares its key with.
RECURSIVE FirstOccurrences(_, _, _)
FirstOccurrences(unit, cat, i) ==
    IF i > Len(cat) THEN <<>>
    ELSE (IF \E j \in 1..(i - 1) : KeyBy(unit, cat[j].Content) = KeyBy(unit, cat[i].Content)
          THEN <<>> ELSE <<cat[i]>>)
         \o FirstOccurrences(unit, cat, i + 1)

C18_RetrievalFallback ==
    (ragOp.op = "GetRelevant" /\ ~ragOp.embedOk) =>
        /\ ragOp.err = Nil
        /\ ragOp.result = GetMessages(config.MaxTokens \div 2)

\* A failed retrieval over a non-empty index with recent turns to return.
C18_Witness ==
    /\ ragOp.op = "GetRelevant" /\ ~ragOp.embedOk
    /\ documents # <<>> /\ Len(ragOp.result) >= 2

\* C19: no two stored records have the same id; an Add with an id already
\* present puts the record in that position and leaves the count and all
\* other positions as they were; an Add with a new id lengthens the
\* sequence by exactly that record.
C19_UniqueIDs ==
    /\ \A i, j \in 1..Len(documents) : i # j => documents[i].ID # documents[j].ID
    /\ storeOp.op = "Add" =>
         LET prev == storeOp.prev
             at == {i \in 1..Len(prev) : prev[i].ID = storeOp.doc.ID}
         IN  IF at # {}
             THEN /\ Len(documents) = Len(prev)
                  /\ \A i \in 1..Len(prev) :
                        documents[i] = IF i \in at THEN storeOp.doc ELSE prev[i]
             ELSE /\ Len(documents) = Len(prev) + 1
                  /\ documents[Len(documents)] = storeOp.doc
                  /\ SubSeq(documents, 1, Len(prev)) = prev

\* An Add that replaced the first of two records by a different record.
C19_Witness ==
    /\ storeOp.op = "Add" /\ Len(storeOp.prev) = 2
    /\ storeOp.prev[1].ID = storeOp.doc.ID /\ storeOp.prev[1] # storeOp.doc
    /\ documents[1] = storeOp.doc

\* C20: for every topK, Search returns min(topK, Count()) results (none
\* for a topK below 0), each a stored record with its similarity and none
\* twice, in non-increasing
\* similarity, no record left out being more similar than one returned,
\* and leaves the stored records as they were.
C20_SearchTopK ==
    storeOp.op = "Search" =>
        LET r == storeOp.result
            n == Len(documents)
            returned == {r[i].Document : i \in 1..Len(r)}
        IN  /\ ~storeOp.panicked
            /\ Len(r) = IF storeOp.topK < 0 THEN 0
                        ELSE IF storeOp.topK < n THEN storeOp.topK ELSE n
            /\ \A i \in 1..Len(r) :
                  /\ \E k \in 1..n : documents[k] = r[i].Document
                  /\ r[i].Similarity = CosineSimilarity(storeOp.query, r[i].Document.Embedding)
            /\ \A i, j \in 1..Len(r) : i # j => r[i].Document # r[j].Document
            /\ \A i, j \in 1..Len(r) : i < j => r[i].Similarity >= r[j].Similarity
            /\ \A k \in 1..n : documents[k] \notin returned =>
                  \A i \in 1..Len(r) :
                     CosineSimilarity(storeOp.query, documents[k].Embedding) <= r[i].Similarity
            /\ documents = storeOp.prev

\* A vector of magnitude 0: every entry is 0.
ZeroMagnitude(v) == \A i \in 1..Len(v) : v[i] = 0

\* C21: when the query vector or a stored vector has magnitude 0, Search
\* returns normally, the similarity it reports for that pair is exactly 0,
\* and the record is ranked as similarity 0: after every record of greater
\* similarity, before every record of smaller similarity, and returned
\* whenever topK admits every stored record.
C21_ZeroVectorSimilarity ==
    (storeOp.op = "Search" /\ storeOp.topK >= 0) =>
        LET r == storeOp.result
            q == storeOp.query
            zero(d) == ZeroMagnitude(q) \/ ZeroMagnitude(d.Embedding)
        IN  /\ ~storeOp.panicked
            /\ \A i \in 1..Len(r) : zero(r[i].Document) =>
                  /\ r[i].Similarity = 0
                  /\ \A j \in 1..Len(r) :
                        /\ r[j].Similarity > 0 => j < i
                        /\ r[j].Similarity < 0 => j > i
            /\ storeOp.topK >= Len(documents) =>
                  \A k \in 1..Len(documents) : zero(documents[k]) =>
                     \E i \in 1..Len(r) :
                        r[i] = [Document |-> documents[k], Similarity |-> 0]

\* A search with a query of magnitude 0 and another with a stored vector of
\* magnitude 0 ranked between a positive and a negative similarity.
C21_Witness ==
    /\ storeOp.op = "Search"
    /\ ~storeOp.panicked
    /\ Len(storeOp.result) = 2
    /\ ~ZeroMagnitude(storeOp.query)
    /\ Len(storeOp.query) = 2
    /\ storeOp.result[1].Similarity > 0
    /\ ZeroMagnitude(storeOp.result[2].Document.Embedding)
    /\ storeOp.result[2].Similarity = 0

\* The contents of a sequence of events, concatenated in arrival order.
RECURSIVE ConcatContent(_)
ConcatContent(evs) ==
    IF evs = <<>> THEN EmptyStr ELSE Head(evs).Content \o ConcatContent(Tail(evs))

\* g took this step.
ForwarderStep(g) ==
    pc'[g] # pc[g] \/ delivered'[g] # delivered[g] \/ fullContent'[g] # fullContent[g]

\* C22: Stream and its goroutine never hold the session lock while the
\* handler is called or while events arrive and are forwarded, and the
\* goroutine changes the history only with the lock taken: by appending
\* the assistant turn whose content is everything accumulated up to a done
\* event (and trimming), or by compacting. A concurrent History(), which
\* waits for the lock, therefore sees the history without the assistant
\* turn or with the complete one.
C22_StreamLockScope ==
    /\ [](Running => \A t \in Threads :
              pc[t] \in {"StreamCall", "GLoop", "GAppend", "CompactCall"} => mu.w # t)
    /\ [](\A c \in Callers : pc[c] = "RUnlock" => mu.w = Nil)
    /\ [][\A g \in Forwarders :
            (ForwarderStep(g) /\ history' # history) =>
                \/ /\ pc[g] = "GAppend"
                   /\ mu.w = Nil /\ mu.r = {}
                   /\ delivered[g] # <<>>
                   /\ delivered[g][Len(delivered[g])].Done
                   /\ fullContent[g] = ConcatContent(delivered[g])
                   /\ IsSuffix(history',
                               Append(history, AssistantTurn(ConcatContent(delivered[g]))))
                \/ /\ pc[g] = "CompactRelock"
                   /\ mu.w = Nil /\ mu.r = {}
                   /\ mu'.w = g]_vars

\* History() holds its read lock while a goroutine has accumulated content
\* and has not seen the done event.
C22_Witness ==
    \E c \in Callers, g \in Forwarders :
        /\ pc[c] = "RUnlock"
        /\ conversationSummary = EmptyStr
        /\ Len(ret[c].val) > 0
        /\ pc[g] = "GLoop"
        /\ fullContent[g] # EmptyStr
        /\ \A i \in 1..Len(delivered[g]) : ~delivered[g][i].Done

\* C23: on a chat with WithMaxTokens(N), N > 0, and a token counter, when a
\* successful Send returns the token counter summed over the history is at
\* most N.
C23_TokenLimitAfterSend ==
    \A c \in Callers :
        (pc[c] = "SendUnlock" /\ err[c] = Nil /\ maxTokens > 0 /\ tokenCounter # Nil) =>
            SumTokens(history) <= maxTokens

\* C24: whatever a read accessor of the bounded buffer reads, with Add and
\* Clear running concurrently, is a state between two writer calls: no
\* Add or Clear is under way, the count is at most MaxMessages (when
\* MaxMessages > 0), the total cost is at most MaxTokens, and the tally is
\* that of the turns held.
C24_NoTornRead ==
    \A r \in BufReaders :
        observed[r].valid =>
            LET b == observed[r].buf
            IN  /\ observed[r].busy = {}
                /\ config.MaxMessages > 0 => Len(b.messages) <= config.MaxMessages
                /\ b.totalTokens <= config.MaxTokens
                /\ Len(b.tokenCounts) = Len(b.messages)
                /\ b.totalTokens = SumSeq(b.tokenCounts)

\* A reader reads the buffer at its count ceiling after more Adds than the
\* ceiling.
C24_Witness ==
    \E r \in BufReaders :
        /\ observed[r].valid
        /\ config.MaxMessages > 0
        /\ Len(observed[r].buf.messages) = config.MaxMessages
        /\ adds > config.MaxMessages

C26_HalfSplitSummarization ==
    LET all == Append(memOp.prev.messages, memOp.msg)
        costs == Append(memOp.prev.tokenCounts, CountTokens(memOp.msg.Content))
        n == Len(all)
        half == n \div 2
    IN  (memOp.op = "Add" /\ summarizer /\ config.SummarizeAfter > 0
            /\ n > config.SummarizeAfter) =>
            /\ memOp.summarized \in {"ok", "failed"}
            /\ memOp.given = [i \in 1..half |-> all[i]]
            /\ memOp.summarized = "ok" =>
                  /\ summary = IF memOp.prev.summary = EmptyStr THEN memOp.text
                               ELSE memOp.prev.summary \o <<"\n", "\n">> \o memOp.text
                  /\ CurBuf = trimToLimits(
                        Buf([i \in 1..(n - half) |-> all[half + i]],
                            [i \in 1..(n - half) |-> costs[half + i]],
                            memOp.prev.totalTokens + CountTokens(memOp.msg.Content)
                                - SumSeq([i \in 1..half |-> costs[i]]),
                            summary))
                  /\ (config.MaxMessages = 0 /\ config.MaxTokens >= memOp.prev.totalTokens + 2) =>
                        /\ messages = [i \in 1..(n - half) |-> all[half + i]]
                        /\ tokenCounts = [i \in 1..(n - half) |-> costs[half + i]]

\* An Add whose summarizer was handed two turns of a four-turn buffer and
\* returned text, and another that extended a standing summary.
C26_Witness ==
    /\ memOp.op = "Add" /\ memOp.summarized = "ok"
    /\ \/ Len(memOp.given) = 2 /\ Len(messages) = 2
       \/ memOp.prev.summary # EmptyStr /\ messages # <<>>

\* C27: for every SummarizeAfter >= 1, an Add that directly follows an Add
\* whose summarization succeeded does not invoke the summarizer.
C27_NoImmediateRetrigger ==
    [][(/\ config.SummarizeAfter >= 1
        /\ memOp.op = "Add" /\ memOp.summarized = "ok"
        /\ adds' = adds + 1 /\ memOp'.op = "Add")
          => memOp'.summarized = "none"]_vars

\* C28: the session's summary and the bounded buffer's summary are only
\* ever extended: across every step the session's summary before it is a
\* prefix of the summary after it, and so is the buffer's unless the step
\* is the buffer's Clear.
C28_SummaryAppendOnly ==
    [][/\ IsPrefix(conversationSummary, conversationSummary')
       /\ memOp'.op # "Clear" => IsPrefix(summary, summary')]_vars

\* Both summaries have been extended a second time.
C28_Witness ==
    /\ \E i \in 1..Len(conversationSummary) : conversationSummary[i] = "\n"
    /\ \E i \in 1..Len(summary) : summary[i] = "\n"

\* The done events among the events a goroutine has received.
DoneEvents(g) == {i \in 1..Len(delivered[g]) : delivered[g][i].Done}

\* C29: the goroutine of a started Stream appends nothing before it has
\* received a done event, appends one assistant turn for the call, when it
\* has received the done event, and that turn's content is the contents of
\* all events received up to and including the done event, in order.
C29_OneAssistantTurnPerStream ==
    [][\A g \in Forwarders :
          /\ (ForwarderStep(g) /\ history' # history /\ pc[g] # "CompactRelock")
                => pc[g] = "GAppend"
          /\ (pc[g] = "GAppend" /\ pc'[g] # "GAppend") =>
                /\ DoneEvents(g) = {Len(delivered[g])}
                /\ IsSuffix(history',
                            Append(history, AssistantTurn(ConcatContent(delivered[g]))))]_vars

\* The summary as bracketed context.
Bracketed(sum) == SummaryOpen \o sum \o SummaryClose

\* C30: the message list Send/Stream hands to the handler is at most one
\* system turn (the system prompt followed by a blank line and the
\* bracketed summary when both are set, the system prompt alone when there
\* is no summary, the bracketed summary alone when there is no system
\* prompt, none when neither is set), then the whole history as it was,
\* then the new user turn as the last element.
C30_RequestAssembly ==
    [][\A c \in Callers :
          (pc[c] = "idle" /\ pc'[c] \in {"SendCall", "StreamCall"}) =>
              LET msgs == req'[c].Messages
                  n == Len(history)
                  k == IF system = EmptyStr /\ conversationSummary = EmptyStr THEN 0 ELSE 1
              IN  /\ Len(msgs) = k + n + 1
                  /\ k = 1 =>
                        /\ msgs[1].Role = RoleSystem
                        /\ msgs[1].Content =
                              IF system # EmptyStr /\ conversationSummary # EmptyStr
                              THEN system \o <<"\n", "\n">> \o Bracketed(conversationSummary)
                              ELSE IF system # EmptyStr THEN system
                              ELSE Bracketed(conversationSummary)
                  /\ \A i \in 1..n : msgs[k + i] = history[i]
                  /\ msgs[k + n + 1] = [Role |-> RoleUser, Content |-> message'[c]]
                  /\ req'[c].SystemPrompt = system]_vars

\* A request assembled with a system prompt, a standing summary and a
\* turn of history before the new user turn.
C30_Witness ==
    \E c \in Callers :
        /\ pc[c] \in {"SendCall", "StreamCall"}
        /\ system # EmptyStr /\ conversationSummary # EmptyStr
        /\ Len(req[c].Messages) >= 3
        /\ req[c].Messages[1].Role = RoleSystem
        /\ Len(req[c].Messages[1].Content) > Len(system) + Len(conversationSummary)

\* C31: every Add on the retrieval-augmented buffer, also when several
\* goroutines call Add at once, formats an identifier that is greater than
\* every identifier formatted by an earlier Add, and stores its record
\* under an identifier no record of the index has.
C31_FreshIdentifiers ==
    /\ [](\A i, j \in 1..Len(minted) : i < j => minted[i] < minted[j])
    /\ [][\A g \in Adders :
            (adder[g].pc = "Index" /\ adder'[g].pc = "idle" /\ documents' # documents)
                => IndexOfID(documents, MsgID(adder[g].id)) = 0]_vars

\* C32: the recent turns that GetRelevant takes from the bounded buffer cost
\* at most half the configured budget, MaxTokens/2 in integer division,
\* whatever MaxTokens is and whatever the buffer holds.
C32_RecentAtHalfBudget ==
    ragOp.op = "GetRelevant" => SumTokens(ragOp.recent) <= config.MaxTokens \div 2

\* The index results that Retrieve keeps: those at or above MinSimilarity.
Kept(res) == {i \in 1..Len(res) : res[i].Similarity >= ragConfig.MinSimilarity}

\* C33: Retrieve returns at most TopK turns: one for each index result of
\* similarity at least MinSimilarity, none for a result below it, in the
\* rank order of the index; every turn has the content of its record and
\* the role of the record's metadata, or role user when the metadata has
\* no role or one that is not a string.
C33_RetrieveFilters ==
    (ragOp.op = "GetRelevant" /\ ragOp.embedOk) =>
        LET res == ragOp.results
            out == ragOp.relevant
        IN  /\ res \in Search(ragOp.prevDocs, Embed(ragOp.query), ragConfig.TopK)
            /\ Len(out) <= ragConfig.TopK
            /\ Len(out) = Cardinality(Kept(res))
            /\ \A i \in Kept(res) :
                  LET k == Cardinality({j \in Kept(res) : j <= i})
                      role == res[i].Document.Role
                  IN  /\ out[k].Content = res[i].Document.Content
                      /\ out[k].Role = IF role \in {RoleUser, RoleAssistant, RoleSystem}
                                       THEN role ELSE RoleUser

\* A retrieval whose index results include one below the threshold, which
\* is left out, and a kept record without a string role.
C33_Witness ==
    /\ ragOp.op = "GetRelevant" /\ ragOp.embedOk
    /\ Len(ragOp.results) = 2
    /\ Len(ragOp.relevant) = 1
    /\ \E i \in Kept(ragOp.results) :
          ragOp.results[i].Document.Role \in {NoRoleMeta, IntRoleMeta}

\* Where a turn is in the order of the appends (turns of the Stream calls
\* are all different).
AppendedAt(turn) == CHOOSE p \in 1..Len(appendOrder) : appendOrder[p] = turn

\* C34: the turns of the session's history are in the order in which they
\* were appended, none of them twice, whatever trimming, compaction and
\* rollback have removed.
C34_AppendOrderKept ==
    \A i, j \in 1..Len(history) :
        i < j => /\ \E p \in 1..Len(appendOrder) : appendOrder[p] = history[i]
                 /\ \E p \in 1..Len(appendOrder) : appendOrder[p] = history[j]
                 /\ AppendedAt(history[i]) < AppendedAt(history[j])

\* C35: when compaction writes its result back, what other operations did
\* to the history during the summarizer call is kept: turns appended after
\* the history compaction started from are still there, behind the recent
\* turns, and a history emptied by Clear stays empty.
C35_CompactionKeepsConcurrentChanges ==
    [][\A t \in Threads :
        (pc[t] = "CompactRelock" /\ pc'[t] # "CompactRelock") =>
            /\ IsPrefix(compactFrom[t], history) =>
                   history' = SubSeq(history,
                                     Len(compactFrom[t]) - autocompact.KeepRecent + 1,
                                     Len(history))
            /\ history = <<>> => history' = <<>>]_vars

\* C36: the session mutex is unlocked only by a step of the goroutine that
\* holds it, and it is never left locked by a goroutine that has stopped
\* running (so that every acquisition is released and callers waiting for
\* the lock go on).
C36_LockDiscipline ==
    /\ [][\A t \in Threads : (mu.w = t /\ mu'.w # t) => pc'[t] # pc[t]]_vars
    /\ [](panicked => mu.w = Nil)

\* An outcome of the wrapped handler that Retry is to try again: a provider
\* error with status 429 or at least 500.
RetryableFailure(o) ==
    o.err.kind = "provider" /\ (o.err.status = 429 \/ o.err.status >= 500)

\* C37: a handler wrapped by Retry calls the wrapped handler at most
\* MaxAttempts times, and only again after a retryable failure, so that
\* the first response and the first error that is not retryable end the
\* calls and are returned; a context cancelled during the wait between two
\* attempts ends them with the context's error; after MaxAttempts
\* retryable failures the last error is returned.
C37_RetryAttempts ==
    LET outs == retry.outcomes
        n == Len(outs)
        max == retry.cfg.MaxAttempts
    IN  /\ n <= max
        /\ \A i \in 1..(n - 1) : RetryableFailure(outs[i])
        /\ retry.ready = {"ctx"} =>
               retry.pc = "Done" /\ retry.ret = Returned(Nil, CtxErr)
        /\ (retry.pc = "Done" /\ n > 0) =>
               IF outs[n].err = NoErr THEN retry.ret = Returned(outs[n].resp, NoErr)
               ELSE IF ~RetryableFailure(outs[n]) THEN retry.ret = Returned(Nil, outs[n].err)
               ELSE IF n = max THEN retry.ret = Returned(Nil, outs[n].err)
               ELSE ctxDone /\ retry.ret = Returned(Nil, CtxErr)

\* A request that failed twice with a retryable error and whose context
\* was cancelled during the second wait, one attempt being left.
C37_Witness ==
    /\ retry.pc = "Done" /\ retry.cfg.MaxAttempts = 3
    /\ Len(retry.outcomes) = 2
    /\ retry.ready = {"ctx"}
    /\ retry.ret.err = CtxErr

\* C38: whatever its configuration, a handler wrapped by Retry has called
\* the wrapped handler at least once when it returns, and it returns a
\* response or an error, never nil for both.
C38_RetryReturnsSomething ==
    retry.pc = "Done" =>
        /\ Len(retry.outcomes) >= 1
        /\ retry.ret.resp # Nil \/ retry.ret.err # NoErr

\* The provider an outcome came from.
AnsweredBy(o) == IF o.err = NoErr THEN o.resp ELSE o.err.from

\* C39: a handler wrapped by Fallback calls the primary handler first and
\* then the fallback providers in the order of the list, each only after
\* all before it failed; the first response is returned and nothing is
\* called after it; a fallback provider is not called when the context was
\* done at the check before it, and the context's error is returned
\* instead; when all have failed the error of the last one is returned.
C39_FallbackOrder ==
    LET t == fallback.tried
        k == Len(t)
    IN  /\ k <= fallback.n + 1
        /\ \A i \in 1..k : AnsweredBy(t[i]) = ProviderName(i - 1)
        /\ \A i \in 1..(k - 1) : t[i].err # NoErr
        /\ fallback.pc = "Call" => ~fallback.checked
        /\ fallback.pc = "Done" =>
               /\ k >= 1
               /\ IF t[k].err = NoErr THEN fallback.ret = Returned(t[k].resp, NoErr)
                  ELSE IF k = fallback.n + 1 THEN fallback.ret = Returned(Nil, t[k].err)
                  ELSE /\ fallback.checked /\ ctxDone
                       /\ fallback.ret = Returned(Nil, CtxErr)

\* The primary handler and the first of two fallback providers failed, and
\* the context was done before the second one was tried.
C39_Witness ==
    /\ fallback.pc = "Done" /\ fallback.n = 2
    /\ Len(fallback.tried) = 2
    /\ fallback.ret = Returned(Nil, CtxErr)

====
